---- MODULE Spec2Model ----
(***************************************************************************)
(* A model of the realtime core of the AudioUnitSDK:                       *)
(*   - AUAtomicStack / AUThreadSafeList (AUThreadSafeList.h): the lock-free *)
(*     list of render notifications, with its producers modelled at the    *)
(*     granularity of single atomic loads and compare-and-swaps;           *)
(*   - AUBase::ScheduleParameter, AUBase::ProcessForScheduledParams and    *)
(*     AUBase::DoRender (AUBase.cpp): parameter scheduling and slicing;    *)
(*   - AUBufferList (AUBuffer.h, AUBuffer.cpp) and AUElement's parameter   *)
(*     storage (AUScopeElement.h).                                         *)
(* Several specifications share the module.  SpecList runs the list under  *)
(* calls from two threads and Update() on the consumer thread, SpecInUse   *)
(* the same on a list that already holds items; SpecThree runs the         *)
(* scenario of three threads calling Add(X), Add(Y), Remove(X) followed by *)
(* one Update().  SpecStack runs AUAtomicStack alone.  SpecSlice runs      *)
(* ProcessForScheduledParams on an event list and a frame count, and       *)
(* SpecSliceLive is the same with weak fairness, for termination;          *)
(* SpecRender runs ScheduleParameter and DoRender; SpecNotify runs         *)
(* DoRender with SetRenderNotification and RemoveRenderNotification;       *)
(* SpecUnit runs DoInitialize, DoCleanup and SetMaxFramesPerSlice with     *)
(* DoRender calls in between.                                              *)
(* Each specification leaves the variables of the others untouched.        *)
(***************************************************************************)
EXTENDS Integers, Sequences, FiniteSets, TLC

\* ------------------------------------------------------------------ bounds

\* Number of Add/Remove/Clear calls made in one behaviour of SpecList (each call
\* constructs at most one node).
MaxCalls == 2

\* Number of nodes on the free list of a list that has been in use before the
\* behaviour starts (InitRecycled).
RecycledNodes == 2

\* Width of the model's machine words, standing for the 32 bits of UInt32 and
\* SInt32: unsigned values are 0..2^WordBits - 1, signed ones
\* -2^(WordBits-1)..2^(WordBits-1) - 1.
WordBits == 3

\* The value mMaxFramesPerSlice has on a new audio unit, the largest block
\* DoRender accepts until SetMaxFramesPerSlice changes it; the buffer offsets of
\* immediate events are drawn from 0..MaxFrames - 1.
MaxFrames == 3

\* The most parameter events in mParamEventList.
MaxEvents == 2

\* The items that exist for an AUAtomicStack in SpecStack, and the number of
\* PushAtomic calls made on it in one behaviour.
MaxItems == 3
MaxPushes == 4

\* ------------------------------------------------- AUThreadSafeList: state

\* The threads that may call Add, Remove and Clear.
Producers == {"t1", "t2", "t3"}

\* The objects stored in the list (T); NoObj is the value-initialised T{}.
Items == {"X", "Y"}
NoObj == "none"

\* nullptr
Nil == 0

Nodes == 1..(RecycledNodes + MaxCalls)

VARIABLES
    mNext,          \* Node::mNext, by node
    mEventType,     \* Node::mEventType, by node
    mObject,        \* Node::mObject, by node
    constructed,    \* nodes 1..constructed have been created by new Node()
    deleted,        \* the nodes that have been deleted
    mActiveList,    \* head of AUThreadSafeList::mActiveList
    mPendingList,   \* head of AUThreadSafeList::mPendingList
    mFreeList,      \* head of AUThreadSafeList::mFreeList
    ppc,            \* by producer: where the thread is inside Add/Remove/Clear
    pop,            \* by producer: the call it is making, [type, obj]
    pnode,          \* by producer: local `node` of Add/Remove/Clear (PopAtomic's result)
    phead,          \* by producer: local `head_` / `result` of the CAS loop it is in
    prest,          \* by producer: PushMultipleAtomic's `item`
    ptail,          \* by producer: PushMultipleAtomic's `tail`
    cpc,            \* consumer: where the thread is inside Update()
    chead,          \* consumer: local `result` / `head_` of the CAS loop it is in
    reversed,       \* consumer: head of Update's local stack `reversed`
    toFree,         \* consumer: nodes still to be handed to FreeNode for the current event
    clearing,       \* consumer: the current event is a Clear whose SetHead(nullptr) is due
    \* history variables (not program state)
    pushed,         \* the requests [type, obj] whose call has returned, in the order of
                    \* their pushes; a request is named by its position in here
    replayLog,      \* requests replayed by Update(), in replay order
    nodeReq,        \* by node: the request the node was pushed for (0: none)
    due,            \* the requests that had been pushed and not replayed when the
                    \* latest Update() began and that it has not replayed yet
    sinceUpdate,    \* what has happened since the latest Update() began, see below
    doubleFree,     \* a node was handed to FreeNode while it was on the free list
    activeBefore,   \* what iterating the active list yielded when the latest Update()
                    \* was entered
    batch           \* the requests the latest Update() detached, oldest push first

listVars == << mNext, mEventType, mObject, constructed, deleted, mActiveList,
               mPendingList,
               mFreeList, ppc, pop, pnode, phead, prest, ptail, cpc, chead,
               reversed, toFree, clearing, pushed, replayLog, nodeReq,
               due, sinceUpdate, doubleFree, activeBefore, batch >>

\* ------------------------------------ parameter scheduling and render: state

VARIABLES
    mParamEventList,    \* AUBase::mParamEventList, or the inParamList handed to
                        \* ProcessForScheduledParams
    mParameters,        \* AUElement::mParameters of the element the events address
    mInitialized,       \* AUBase::mInitialized
    canSchedule,        \* what CanScheduleParameters() answers
    rpc,                \* where the render thread is inside DoRender
    spc,                \* where the render thread is inside ProcessForScheduledParams
    inFramesToProcess,  \* the argument of DoRender / ProcessForScheduledParams
    framesRemaining,    \* ProcessForScheduledParams' local
    currentStartFrame,  \* ProcessForScheduledParams' local
    result,             \* ProcessForScheduledParams' local
    \* history variables (not program state)
    slices,             \* the calls of ProcessScheduledSlice made by the latest
                        \* ProcessForScheduledParams: [start, frames, params, result]
    lastScheduled,      \* per parameter: the value the latest ScheduleParameter wrote
                        \* for it, once no slice has applied an event to it since
    lastRender          \* how the latest DoRender ended, if ScheduleParameter has not
                        \* been called since: "success", "renderError", "validation",
                        \* "exception"; "none" otherwise

renderVars == << mParamEventList, mParameters, mInitialized, canSchedule, rpc, spc,
                 inFramesToProcess, framesRemaining, currentStartFrame, result,
                 slices, lastRender, lastScheduled >>

\* ------------------------------------------------------ AUBufferList: state

VARIABLES
    mPtrState,          \* AUBufferList::mPtrState
    mBuffers,           \* AUBufferList::mBuffers: the AllocatedBuffer, or NoBuffers
    mAllocatedStreams,  \* AUBufferList::mAllocatedStreams
    mAllocatedFrames,   \* AUBufferList::mAllocatedFrames
    memory,             \* the bytes of the allocated, external and destination
                        \* memory that are not zero, by address
    destabl,            \* the AudioBufferList a caller hands to the copy operations
    \* history variables (not program state)
    bufferCall,         \* the latest call on the AUBufferList and how it ended
    bufferCalls,        \* how many calls have changed the AUBufferList
    roundTrip,          \* how far a CopyBufferListTo / CopyBufferContentsTo round
                        \* trip into destabl has got
    sinceAllocate,      \* the format of the latest Allocate that returned, and the
                        \* buffer count of the latest SetBufferList since
    released            \* for every region BufferAllocator::Allocate has returned,
                        \* in order, how often it was handed to
                        \* BufferAllocator::Deallocate

bufferVars == << mPtrState, mBuffers, mAllocatedStreams, mAllocatedFrames, memory,
                 destabl, bufferCall, bufferCalls, roundTrip, sinceAllocate, released >>

\* -------------------------------------------------- AUElement parameters: state

VARIABLES
    mUseIndexedParameters,  \* AUElement::mUseIndexedParameters
    mIndexedParameters,     \* AUElement::mIndexedParameters (id i is element i + 1)
    epc,                    \* by thread: where it is inside GetParameter / SetParameter
    ecall,                  \* by thread: the call it is making
    \* history variables (not program state)
    eret,                   \* the latest call that returned and how it ended
    lastWrite,              \* by parameter id: the value of the latest SetParameter
                            \* that stored a value for it
    declared,               \* the count of the first UseIndexedParameters call, if any
    lateDeclare             \* UseIndexedParameters was called on an element that was
                            \* indexed already or held a parameter

elementVars == << mUseIndexedParameters, mIndexedParameters, epc, ecall, eret,
                  lastWrite, declared, lateDeclare >>

\* ----------------------------------------------------- AUAtomicStack: state

\* The threads that call PushAtomic on the stack; one more thread is its reader.
Pushers == {"w1", "w2"}

\* The items (T) pushed onto the stack.
StackItems == 1..MaxItems

VARIABLES
    mHead,          \* AUAtomicStack::mHead
    itemNext,       \* item->Next(), by item
    wpc,            \* by pusher: where the thread is inside PushAtomic
    witem,          \* by pusher: PushAtomic's `item`
    whead,          \* by pusher: PushAtomic's local `head_`
    qpc,            \* reader: where it is inside PopAtomicSingleReader
    qresult,        \* reader: PopAtomicSingleReader's local `result`
    qnext,          \* reader: the value of result->Next() it read for the CAS
    \* history variables (not program state)
    inHand,         \* the items no thread is pushing and the stack does not hold
    pushes,         \* by item: how many PushAtomic calls for it have returned
    pops,           \* by item: how many pops have returned it
    wasEmpty,       \* the stack was empty at some instant of the reader's current
                    \* (or, when it is idle, latest) call
    popReturned     \* << what the reader's latest call returned >>, << >> before it

stackVars == << mHead, itemNext, wpc, witem, whead, qpc, qresult, qnext,
                inHand, pushes, pops, wasEmpty, popReturned >>

\* ------------------------------------------ render notifications: state

VARIABLES
    mRenderCallbacksTouched,  \* AUBase::mRenderCallbacksTouched
    usesFixedBlockSize,       \* what UsesFixedBlockSize() answers
    outputFormat,             \* Output(0).GetStreamFormat(); bus 0 is the only output
    ioData,                   \* the host's AudioBufferList of the latest DoRender
    \* history variables (not program state)
    renderCall,               \* the latest DoRender call: its arguments, what it found
                              \* and how it ended
    renderLog                 \* what the latest DoRender did, in order: [what, arg, flag]

notifyVars == << mRenderCallbacksTouched, usesFixedBlockSize, outputFormat, ioData,
                 renderCall, renderLog >>

\* --------------------------------- initialization and I/O buffers: state

VARIABLES
    mMaxFramesPerSlice,       \* AUBase::mMaxFramesPerSlice
    mHasBegunInitializing,    \* AUBase::mHasBegunInitializing
    mBuffersAllocated,        \* AUBase::mBuffersAllocated
    mIOBuffer,                \* per I/O element: what its AUBufferList mIOBuffer owns
    inputFormat,              \* Input(0).GetStreamFormat()
    \* history variables (not program state)
    initCall,                 \* the latest DoInitialize, DoCleanup or SetMaxFramesPerSlice
                              \* call and how it ended
    initThrew                 \* a DoInitialize was left by an exception of
                              \* ReallocateBuffers, and none has initialized the unit since

unitVars == << mMaxFramesPerSlice, mHasBegunInitializing, mBuffersAllocated, mIOBuffer,
               inputFormat, initCall, initThrew >>

vars == << listVars, renderVars, bufferVars, elementVars, stackVars, notifyVars,
           unitVars >>

\* AUBufferList::EPtrState.
EPtrState == {"Invalid", "ToMyMemory", "ToExternalMemory"}

\* mBuffers == nullptr.
NoBuffers == [allocated |-> FALSE]

\* A null mData, and memory in which every byte is zero.
NullPtr == [region |-> "null", offset |-> 0]
ZeroMemory == [a \in {} |-> 0]

\* An AudioBufferList with no buffers.
EmptyABL == [mNumberBuffers |-> 0, mBuffers |-> << >>]

NoBufferCall == [op |-> "none", status |-> "none"]

\* No Allocate has returned since the AUBufferList was made or deallocated.
NoAllocation == [allocated |-> FALSE]

\* A new AUBufferList, nothing allocated, and no destination list.
BufferQuiet ==
    /\ mPtrState = "Invalid"
    /\ mBuffers = NoBuffers
    /\ mAllocatedStreams = 0
    /\ mAllocatedFrames = 0
    /\ memory = ZeroMemory
    /\ destabl = EmptyABL
    /\ bufferCall = NoBufferCall
    /\ bufferCalls = 0
    /\ roundTrip = "none"
    /\ sinceAllocate = NoAllocation
    /\ released = << >>

\* The threads that call GetParameter and SetParameter on the element.
ElemThreads == {"e1", "e2"}

NoElemCall == [op |-> "none"]
NoValue == "none"

\* A new AUElement: sparse mode, no parameters.
ElementQuiet ==
    /\ mUseIndexedParameters = FALSE
    /\ mIndexedParameters = << >>
    /\ epc = [t \in ElemThreads |-> "idle"]
    /\ ecall = [t \in ElemThreads |-> NoElemCall]
    /\ eret = NoElemCall
    /\ lastWrite = ZeroMemory
    /\ declared = {}
    /\ lateDeclare = FALSE

\* A new AUAtomicStack: empty, no call in progress, every item in its owner's hand.
StackQuiet ==
    /\ mHead = Nil
    /\ itemNext = [i \in StackItems |-> Nil]
    /\ wpc = [t \in Pushers |-> "idle"]
    /\ witem = [t \in Pushers |-> Nil]
    /\ whead = [t \in Pushers |-> Nil]
    /\ qpc = "idle"
    /\ qresult = Nil
    /\ qnext = Nil
    /\ inHand = StackItems
    /\ pushes = [i \in StackItems |-> 0]
    /\ pops = [i \in StackItems |-> 0]
    /\ wasEmpty = FALSE
    /\ popReturned = << >>

NoRenderCall == [status |-> "none"]

\* No render observer was ever registered and DoRender has not been called; the
\* one output bus carries interleaved stereo of 2 bytes a frame.
NotifyQuiet ==
    /\ mRenderCallbacksTouched = FALSE
    /\ usesFixedBlockSize = FALSE
    /\ outputFormat = [interleaved |-> TRUE, mChannelsPerFrame |-> 2, mBytesPerFrame |-> 2]
    /\ ioData = EmptyABL
    /\ renderCall = NoRenderCall
    /\ renderLog = << >>

\* The I/O elements of the audio unit, in the order ReallocateBuffers and
\* DeallocateIOBuffers visit them: the outputs, then the inputs.  Input 0 has a
\* render callback (NeedsBufferSpace()) and both will allocate (mWillAllocate).
IOElements == << "Output0", "Input0" >>

\* An AUBufferList that owns nothing (mBuffers == nullptr), and one whose Allocate
\* returned for a format and a number of frames.
NoIOBuffer == [allocated |-> FALSE]
IOBufferFor(format, nFrames) == [allocated |-> TRUE, format |-> format, nFrames |-> nFrames]

\* No DoInitialize, DoCleanup or SetMaxFramesPerSlice call has been made.
NoInitCall == [op |-> "none", status |-> "none"]

\* The audio unit as its constructor leaves it (mMaxFramesPerSlice at its default),
\* or, where a behaviour starts with an initialized unit, as the DoInitialize that
\* initialized it left it.
UnitQuiet ==
    /\ mMaxFramesPerSlice = MaxFrames
    /\ inputFormat = [interleaved |-> TRUE, mChannelsPerFrame |-> 2, mBytesPerFrame |-> 2]
    /\ mHasBegunInitializing = mInitialized
    /\ mBuffersAllocated = mInitialized
    /\ mIOBuffer = IF mInitialized
                   THEN [e \in {"Output0", "Input0"} |->
                           IOBufferFor(IF e = "Output0" THEN outputFormat ELSE inputFormat,
                                       MaxFrames)]
                   ELSE [e \in {"Output0", "Input0"} |-> NoIOBuffer]
    /\ initCall = NoInitCall
    /\ initThrew = FALSE

\* The parameters of the element (AudioUnitParameterID) and the values events carry.
ParamIDs == {"A", "B"}
Values == {1, 2}

\* The value every parameter has before any event is applied.
InitialValue == 0

\* No ScheduleParameter has written any parameter.
NothingWritten == [p \in ParamIDs |-> << >>]

\* OSStatus noErr, and the error a slice callback may return.
NoErr == "noErr"
SliceError == "sliceError"

\* No block is being rendered: nothing scheduled, every parameter at its initial
\* value.
RenderQuiet ==
    /\ mParamEventList = << >>
    /\ mParameters = [p \in ParamIDs |-> InitialValue]
    /\ rpc = "idle"
    /\ spc = "idle"
    /\ inFramesToProcess = 0
    /\ framesRemaining = 0
    /\ currentStartFrame = 0
    /\ result = NoErr
    /\ slices = << >>
    /\ lastRender = "none"
    /\ lastScheduled = NothingWritten

\* ----------------------------------------------------------- list helpers

\* The nodes of the chain that starts at h, following mNext (at most `fuel` of them).
RECURSIVE ChainF(_, _, _)
ChainF(next, h, fuel) ==
    IF h = Nil \/ fuel = 0 THEN << >>
    ELSE << h >> \o ChainF(next, next[h], fuel - 1)

Chain(h) == ChainF(mNext, h, RecycledNodes + MaxCalls + 1)

SeqToSet(s) == { s[i] : i \in 1..Len(s) }

Last(s) == s[Len(s)]

\* An iterator that starts at the pending stack: the mutant of begin.
beginPending == mPendingList

\* AUThreadSafeList::begin(): an iterator at the head of the active list.
begin == mActiveList

\* What iterating begin()..end() yields: the objects of the nodes from begin() on,
\* in order.
ActiveItems == [ i \in 1..Len(Chain(begin)) |-> mObject[Chain(begin)[i]] ]

\* sinceUpdate: a push has completed since the latest Update() began (or there has
\* been no Update() yet) ...
SincePush == [kind |-> "pushed", items |-> << >>]

\* ... or none has, but one had when it began ...
SinceUpdated == [kind |-> "updated", items |-> << >>]

\* ... or none has, and none had since the Update() before it began either: the
\* latest Update() found the active list holding `items`.
SinceQuiet(items) == [kind |-> "quiet", items |-> items]

NoCall == [type |-> "Unknown", obj |-> NoObj]

InitList ==
    /\ mNext = [n \in Nodes |-> Nil]
    /\ mEventType = [n \in Nodes |-> "Unknown"]
    /\ mObject = [n \in Nodes |-> NoObj]
    /\ constructed = 0
    /\ deleted = {}
    /\ mActiveList = Nil
    /\ mPendingList = Nil
    /\ mFreeList = Nil
    /\ ppc = [t \in Producers |-> "idle"]
    /\ pop = [t \in Producers |-> NoCall]
    /\ pnode = [t \in Producers |-> Nil]
    /\ phead = [t \in Producers |-> Nil]
    /\ prest = [t \in Producers |-> Nil]
    /\ ptail = [t \in Producers |-> Nil]
    /\ cpc = "idle"
    /\ chead = Nil
    /\ reversed = Nil
    /\ toFree = << >>
    /\ clearing = FALSE
    /\ pushed = << >>
    /\ replayLog = << >>
    /\ nodeReq = [n \in Nodes |-> 0]
    /\ due = {}
    /\ sinceUpdate = SincePush
    /\ doubleFree = FALSE
    /\ activeBefore = << >>
    /\ batch = << >>

\* A list that has been in use: RecycledNodes calls of Remove(X) were made on the
\* new list and one Update() has replayed them, which put every request node on the
\* free list, the latest on top.  The history starts afresh.
InitRecycled ==
    /\ mNext = [n \in Nodes |-> IF n <= RecycledNodes THEN n - 1 ELSE Nil]
    /\ mEventType = [n \in Nodes |-> IF n <= RecycledNodes THEN "Remove" ELSE "Unknown"]
    /\ mObject = [n \in Nodes |-> IF n <= RecycledNodes THEN "X" ELSE NoObj]
    /\ constructed = RecycledNodes
    /\ deleted = {}
    /\ mActiveList = Nil
    /\ mPendingList = Nil
    /\ mFreeList = RecycledNodes
    /\ ppc = [t \in Producers |-> "idle"]
    /\ pop = [t \in Producers |-> NoCall]
    /\ pnode = [t \in Producers |-> Nil]
    /\ phead = [t \in Producers |-> Nil]
    /\ prest = [t \in Producers |-> Nil]
    /\ ptail = [t \in Producers |-> Nil]
    /\ cpc = "idle"
    /\ chead = Nil
    /\ reversed = Nil
    /\ toFree = << >>
    /\ clearing = FALSE
    /\ pushed = << >>
    /\ replayLog = << >>
    /\ nodeReq = [n \in Nodes |-> 0]
    /\ due = {}
    /\ sinceUpdate = SincePush
    /\ doubleFree = FALSE
    /\ activeBefore = << >>
    /\ batch = << >>

\* What the active list of InitInUse holds.
InUseItems == << "X", "Y" >>

\* A list in use: Add(X) and Add(Y) were called on the new list and one Update()
\* has linked their nodes into the active list; nothing is free.  The history
\* starts afresh.
InitInUse ==
    /\ mNext = [n \in Nodes |-> IF n < Len(InUseItems) THEN n + 1 ELSE Nil]
    /\ mEventType = [n \in Nodes |-> IF n <= Len(InUseItems) THEN "Add" ELSE "Unknown"]
    /\ mObject = [n \in Nodes |-> IF n <= Len(InUseItems) THEN InUseItems[n] ELSE NoObj]
    /\ constructed = Len(InUseItems)
    /\ deleted = {}
    /\ mActiveList = 1
    /\ mPendingList = Nil
    /\ mFreeList = Nil
    /\ ppc = [t \in Producers |-> "idle"]
    /\ pop = [t \in Producers |-> NoCall]
    /\ pnode = [t \in Producers |-> Nil]
    /\ phead = [t \in Producers |-> Nil]
    /\ prest = [t \in Producers |-> Nil]
    /\ ptail = [t \in Producers |-> Nil]
    /\ cpc = "idle"
    /\ chead = Nil
    /\ reversed = Nil
    /\ toFree = << >>
    /\ clearing = FALSE
    /\ pushed = << >>
    /\ replayLog = << >>
    /\ nodeReq = [n \in Nodes |-> 0]
    /\ due = {}
    /\ sinceUpdate = SincePush
    /\ doubleFree = FALSE
    /\ activeBefore = InUseItems
    /\ batch = << >>

consVars == << cpc, chead, reversed, toFree, clearing >>
prodVars == << ppc, pop, pnode, phead, prest, ptail >>
histVars == << pushed, replayLog, nodeReq, due, sinceUpdate, doubleFree,
              activeBefore, batch >>

\* ------------------------------------------------ AUAtomicStack primitives

\* A plain store in place of the compare-and-swap: the mutant of CompareAndSwap.
CompareAndSwapBlind(cur, oldvalue) == TRUE

\* AUAtomicStack::CompareAndSwap succeeds exactly when mHead still holds oldvalue.
CompareAndSwap(cur, oldvalue) == cur = oldvalue

\* The last node of the chain headed by item (PushMultipleAtomic's first loop).
FindTail(item) == Last(Chain(item))

\* A PopAtomic that pushes nothing back: the mutant of PopAtomicRemainder.
PopAtomicRemainderNone(first) == Nil

\* PopAtomic's `next`: what follows the first of the nodes PopAll detached, which
\* PushMultipleAtomic pushes back.
PopAtomicRemainder(first) == mNext[first]

\* --------------------------------------- Add / Remove / Clear (any thread)

CallTypes == {"Add", "Remove", "Clear"}

\* Node fields written by Add/Remove (type and object) and by Clear (type only).
SetFields(op, n) ==
    /\ mEventType' = [mEventType EXCEPT ![n] = op.type]
    /\ mObject' = IF op.type = "Clear" THEN mObject
                  ELSE [mObject EXCEPT ![n] = op.obj]

\* The calls made so far, returned or not.
CallsMade == Len(pushed) + Cardinality({ t \in Producers : ppc[t] # "idle" })

\* AllocNode -> PopAtomic -> PopAll: load mFreeList.mHead; an empty free list makes
\* PopAll return null and AllocNode construct a node, which the call `op` fills in.
PopAllLoad(t, op) ==
    /\ IF mFreeList = Nil
       THEN /\ constructed' = constructed + 1
            /\ pnode' = [pnode EXCEPT ![t] = constructed + 1]
            /\ SetFields(op, constructed + 1)
            /\ ppc' = [ppc EXCEPT ![t] = "pushRead"]
            /\ UNCHANGED phead
       ELSE /\ phead' = [phead EXCEPT ![t] = mFreeList]
            /\ ppc' = [ppc EXCEPT ![t] = "allocCAS"]
            /\ UNCHANGED << constructed, pnode, mEventType, mObject >>
    /\ UNCHANGED << mNext, deleted, mActiveList, mPendingList, mFreeList, prest,
                    ptail, consVars, histVars >>
    /\ UNCHANGED << renderVars, bufferVars, elementVars, stackVars, notifyVars, unitVars >>

\* A thread enters Add(obj), Remove(obj) or Clear() and calls AllocNode, up to
\* PopAll's first load of the free list's head.
Call(t, type, obj) ==
    /\ ppc[t] = "idle"
    /\ pop' = [pop EXCEPT ![t] = [type |-> type, obj |-> obj]]
    /\ PopAllLoad(t, [type |-> type, obj |-> obj])

\* PopAll's loop on the free list runs again after a failed compare-and-swap.
AllocRead(t) ==
    /\ ppc[t] = "allocRead"
    /\ PopAllLoad(t, pop[t])
    /\ UNCHANGED pop

\* PopAll's CompareAndSwap(result, nullptr) on the free list; on success PopAtomic
\* keeps the first node and, if more were popped, finds the tail of the remainder
\* for PushMultipleAtomic.
AllocCAS(t) ==
    /\ ppc[t] = "allocCAS"
    /\ IF CompareAndSwap(mFreeList, phead[t])
       THEN /\ mFreeList' = Nil
            /\ pnode' = [pnode EXCEPT ![t] = phead[t]]
            /\ phead' = [phead EXCEPT ![t] = Nil]
            /\ IF PopAtomicRemainder(phead[t]) # Nil
               THEN /\ prest' = [prest EXCEPT ![t] = PopAtomicRemainder(phead[t])]
                    /\ ptail' = [ptail EXCEPT ![t] = FindTail(PopAtomicRemainder(phead[t]))]
                    /\ ppc' = [ppc EXCEPT ![t] = "pmRead"]
                    /\ UNCHANGED << mEventType, mObject >>
               ELSE /\ SetFields(pop[t], phead[t])
                    /\ ppc' = [ppc EXCEPT ![t] = "pushRead"]
                    /\ UNCHANGED << prest, ptail >>
       ELSE /\ ppc' = [ppc EXCEPT ![t] = "allocRead"]
            /\ phead' = [phead EXCEPT ![t] = Nil]
            /\ UNCHANGED << mFreeList, pnode, prest, ptail, mEventType, mObject >>
    /\ UNCHANGED << mNext, constructed, deleted, mActiveList, mPendingList, pop, consVars,
                    histVars >>
    /\ UNCHANGED << renderVars, bufferVars, elementVars, stackVars, notifyVars, unitVars >>

\* PushMultipleAtomic's second loop: head_ = mHead; tail->Next() = head_.
PushMultipleRead(t) ==
    /\ ppc[t] = "pmRead"
    /\ phead' = [phead EXCEPT ![t] = mFreeList]
    /\ mNext' = [mNext EXCEPT ![ptail[t]] = mFreeList]
    /\ ppc' = [ppc EXCEPT ![t] = "pmCAS"]
    /\ UNCHANGED << mEventType, mObject, constructed, deleted, mActiveList, mPendingList,
                    mFreeList, pop, pnode, prest, ptail, consVars, histVars >>
    /\ UNCHANGED << renderVars, bufferVars, elementVars, stackVars, notifyVars, unitVars >>

\* PushMultipleAtomic's CompareAndSwap(head_, item); then AllocNode returns and the
\* caller fills the node in.
PushMultipleCAS(t) ==
    /\ ppc[t] = "pmCAS"
    /\ IF CompareAndSwap(mFreeList, phead[t])
       THEN /\ mFreeList' = prest[t]
            /\ SetFields(pop[t], pnode[t])
            /\ ppc' = [ppc EXCEPT ![t] = "pushRead"]
            /\ prest' = [prest EXCEPT ![t] = Nil]
            /\ ptail' = [ptail EXCEPT ![t] = Nil]
       ELSE /\ ppc' = [ppc EXCEPT ![t] = "pmRead"]
            /\ UNCHANGED << mFreeList, mEventType, mObject, prest, ptail >>
    /\ phead' = [phead EXCEPT ![t] = Nil]
    /\ UNCHANGED << mNext, constructed, deleted, mActiveList, mPendingList, pop, pnode,
                    consVars, histVars >>
    /\ UNCHANGED << renderVars, bufferVars, elementVars, stackVars, notifyVars, unitVars >>

\* mPendingList.PushAtomic(node): head_ = mHead; item->Next() = head_.
PushRead(t) ==
    /\ ppc[t] = "pushRead"
    /\ phead' = [phead EXCEPT ![t] = mPendingList]
    /\ mNext' = [mNext EXCEPT ![pnode[t]] = mPendingList]
    /\ ppc' = [ppc EXCEPT ![t] = "pushCAS"]
    /\ UNCHANGED << mEventType, mObject, constructed, deleted, mActiveList, mPendingList,
                    mFreeList, pop, pnode, prest, ptail, consVars, histVars >>
    /\ UNCHANGED << renderVars, bufferVars, elementVars, stackVars, notifyVars, unitVars >>

\* mPendingList.PushAtomic(node): CompareAndSwap(head_, item); on success the call
\* returns.
PushCAS(t) ==
    /\ ppc[t] = "pushCAS"
    /\ IF CompareAndSwap(mPendingList, phead[t])
       THEN /\ mPendingList' = pnode[t]
            /\ pushed' = Append(pushed, pop[t])
            /\ sinceUpdate' = SincePush
            /\ nodeReq' = [nodeReq EXCEPT ![pnode[t]] = Len(pushed) + 1]
            /\ ppc' = [ppc EXCEPT ![t] = "idle"]
            /\ pop' = [pop EXCEPT ![t] = NoCall]
            /\ pnode' = [pnode EXCEPT ![t] = Nil]
            /\ phead' = [phead EXCEPT ![t] = Nil]
            /\ prest' = [prest EXCEPT ![t] = Nil]
            /\ ptail' = [ptail EXCEPT ![t] = Nil]
       ELSE /\ ppc' = [ppc EXCEPT ![t] = "pushRead"]
            /\ phead' = [phead EXCEPT ![t] = Nil]
            /\ UNCHANGED << mPendingList, pushed, sinceUpdate, nodeReq, pop, pnode,
                            prest, ptail >>
    /\ UNCHANGED << mNext, mEventType, mObject, constructed, deleted, mActiveList, mFreeList,
                    consVars, replayLog, due, doubleFree, activeBefore, batch >>
    /\ UNCHANGED << renderVars, bufferVars, elementVars, stackVars, notifyVars, unitVars >>

Add(t, obj) == Call(t, "Add", obj)

Remove(t, obj) == Call(t, "Remove", obj)

Clear(t) == Call(t, "Clear", NoObj)

\* ------------------------------------------------- Update (consumer thread)

\* Replaying the detached requests newest first: the mutant of ReplayOrder.
ReplayOrderLIFO(c) == c

\* A reversing loop that stops one node early and so never reaches the oldest
\* request: a mutant of ReplayOrder.
ReplayOrderSkipOldest(c) == [ i \in 1..(Len(c) - 1) |-> c[Len(c) - i] ]

\* Update's first loop pushes the detached chain c (newest request first) node by
\* node onto `reversed`, so that popping `reversed` yields the oldest request first.
ReplayOrder(c) == [ i \in 1..Len(c) |-> c[Len(c) + 1 - i] ]

\* mNext after the nodes of `order` have been linked into a chain in that order.
LinkChain(next, order) ==
    [ n \in Nodes |->
        IF \E i \in 1..Len(order) : order[i] = n
        THEN LET i == CHOOSE j \in 1..Len(order) : order[j] = n
             IN  IF i = Len(order) THEN Nil ELSE order[i + 1]
        ELSE next[n] ]

\* Detaching only the first pending node: the mutant of PopAllNewHead.
PopOneNewHead(head) == mNext[head]

\* What PopAll's CompareAndSwap(result, nullptr) stores in mHead.
PopAllNewHead(head) == Nil

\* An Add that never finds its object in the active list: the mutant of AddFindEqual.
AddFindNone(chain, o) == 0

\* Add's scan of the active list: the position of the first node holding an object
\* equal to o, or 0.
AddFindEqual(chain, o) ==
    IF \E i \in 1..Len(chain) : mObject[chain[i]] = o
    THEN CHOOSE i \in 1..Len(chain) :
            /\ mObject[chain[i]] = o
            /\ \A j \in 1..(i - 1) : mObject[chain[j]] # o
    ELSE 0

\* An Add that never remembers the node it scanned last and so always pushes its
\* node at the head: the mutant of EndNode.
EndNodeNone(chain) == Nil

\* Add's endNode when the scan found no equal object: the last node of the active
\* list, null for an empty list.
EndNode(chain) == IF chain = << >> THEN Nil ELSE Last(chain)

\* Remove's scan of the active list, as Add's.
RemoveFindEqual(chain, o) ==
    IF \E i \in 1..Len(chain) : mObject[chain[i]] = o
    THEN CHOOSE i \in 1..Len(chain) :
            /\ mObject[chain[i]] = o
            /\ \A j \in 1..(i - 1) : mObject[chain[j]] # o
    ELSE 0

\* A Remove that recycles the request node only: the mutant of RemoveFrees.
RemoveFreesEventOnly(node, event) == << event >>

\* The nodes a Remove that found `node` hands to FreeNode, in order.
RemoveFrees(node, event) == << node, event >>

\* The nodes a producer has detached from the free list in PopAtomic and is about to
\* push back: the chain from PushMultipleAtomic's `item` to its `tail`.
HeldChain(t) ==
    IF ppc[t] \in {"pmRead", "pmCAS"}
    THEN LET c == Chain(prest[t])
             k == CHOOSE i \in 1..Len(c) : c[i] = ptail[t]
         IN  SubSeq(c, 1, k)
    ELSE << >>

\* Whether node n is on the free list, counting the part of it a producer holds.
OnFreeList(n) ==
    \/ n \in SeqToSet(Chain(mFreeList))
    \/ \E t \in Producers : n \in SeqToSet(HeldChain(t))

\* The requests carried by the nodes of the chain headed by h.
RequestsOn(h) == [ i \in 1..Len(Chain(h)) |-> nodeReq[Chain(h)[i]] ]

\* A stack's content read from the bottom: the oldest push first.
OldestFirst(s) == [ i \in 1..Len(s) |-> s[Len(s) + 1 - i] ]

\* A Clear that recycles its request node only: the mutant of ClearFrees.
ClearFreesEventOnly(chain, event) == << event >>

\* The nodes a Clear hands to FreeNode, in order: every node of the active list,
\* then the request node.
ClearFrees(chain, event) == chain \o << event >>

\* Where Update goes on after a request is dealt with: to the next request of
\* `reversed`, or, PopNonAtomic returning null, out of Update.
NextEvent(rest) == IF rest = Nil THEN "idle" ELSE "process"

\* Update() is entered; PopAll loads mPendingList.mHead.  With nothing pending
\* workDone stays false and Update returns.
UpdateEnter ==
    /\ cpc = "idle"
    /\ due' = { r \in 1..Len(pushed) : r \notin SeqToSet(replayLog) }
    /\ sinceUpdate' = IF sinceUpdate = SincePush THEN SinceUpdated
                      ELSE SinceQuiet(ActiveItems)
    /\ activeBefore' = ActiveItems
    /\ batch' = << >>
    /\ chead' = mPendingList
    /\ cpc' = IF mPendingList = Nil THEN "idle" ELSE "popCAS"
    /\ UNCHANGED << mNext, mEventType, mObject, constructed, deleted, mActiveList, mPendingList,
                    mFreeList, prodVars, reversed, toFree, clearing, pushed,
                    replayLog, nodeReq, doubleFree >>

\* Update() called on a list by itself.
UpdateBegin ==
    /\ UpdateEnter
    /\ UNCHANGED << renderVars, bufferVars, elementVars, stackVars, notifyVars, unitVars >>

\* PopAll's loop runs again after a failed compare-and-swap.
UpdatePopRead ==
    /\ cpc = "popRead"
    /\ chead' = mPendingList
    /\ cpc' = IF mPendingList = Nil THEN "idle" ELSE "popCAS"
    /\ UNCHANGED << mNext, mEventType, mObject, constructed, deleted, mActiveList, mPendingList,
                    mFreeList, prodVars, reversed, toFree, clearing, histVars >>
    /\ UNCHANGED << renderVars, bufferVars, elementVars, stackVars, notifyVars, unitVars >>

\* PopAll's CompareAndSwap(result, nullptr) on the pending list; on success the
\* detached chain is reversed onto `reversed`.
UpdatePopCAS ==
    /\ cpc = "popCAS"
    /\ IF CompareAndSwap(mPendingList, chead)
       THEN LET order == ReplayOrder(Chain(chead))
            IN  /\ mPendingList' = PopAllNewHead(chead)
                /\ mNext' = LinkChain(mNext, order)
                /\ reversed' = IF order = << >> THEN Nil ELSE order[1]
                /\ cpc' = NextEvent(IF order = << >> THEN Nil ELSE order[1])
                /\ batch' = OldestFirst(RequestsOn(chead))
       ELSE /\ cpc' = "popRead"
            /\ UNCHANGED << mPendingList, mNext, reversed, batch >>
    /\ chead' = Nil
    /\ UNCHANGED << mEventType, mObject, constructed, deleted, mActiveList, mFreeList,
                    prodVars, toFree, clearing, pushed, replayLog, nodeReq, due,
                    sinceUpdate, doubleFree, activeBefore >>
    /\ UNCHANGED << renderVars, bufferVars, elementVars, stackVars, notifyVars, unitVars >>

\* case EventType::Add: the object is already there (the request node is recycled)
\* or the request node is linked in at the end of the active list.
ProcessAdd ==
    /\ cpc = "process"
    /\ mEventType[reversed] = "Add"
    /\ LET event == reversed
           chain == Chain(mActiveList)
           found == AddFindEqual(chain, mObject[event])
       IN  /\ reversed' = mNext[event]
           /\ replayLog' = Append(replayLog, nodeReq[event])
           /\ due' = due \ {nodeReq[event]}
           /\ IF found # 0
              THEN /\ toFree' = << event >>
                   /\ cpc' = "freeRead"
                   /\ UNCHANGED << mNext, mActiveList >>
              ELSE /\ cpc' = NextEvent(mNext[event])
                   /\ toFree' = << >>
                   /\ IF EndNode(chain) = Nil
                      THEN /\ mNext' = [mNext EXCEPT ![event] = mActiveList]
                           /\ mActiveList' = event
                      ELSE /\ mNext' = [mNext EXCEPT ![EndNode(chain)] = event,
                                                     ![event] = Nil]
                           /\ UNCHANGED mActiveList
    /\ UNCHANGED << mEventType, mObject, constructed, deleted, mPendingList, mFreeList, prodVars,
                    chead, clearing, pushed, nodeReq, sinceUpdate, doubleFree,
                    activeBefore, batch >>
    /\ UNCHANGED << renderVars, bufferVars, elementVars, stackVars, notifyVars, unitVars >>

\* case EventType::Remove: the first node holding an equal object is unlinked and
\* recycled; the request node is recycled.
ProcessRemove ==
    /\ cpc = "process"
    /\ mEventType[reversed] = "Remove"
    /\ LET event == reversed
           chain == Chain(mActiveList)
           found == RemoveFindEqual(chain, mObject[event])
       IN  /\ reversed' = mNext[event]
           /\ replayLog' = Append(replayLog, nodeReq[event])
           /\ due' = due \ {nodeReq[event]}
           /\ cpc' = "freeRead"
           /\ IF found # 0
              THEN /\ toFree' = RemoveFrees(chain[found], event)
                   /\ IF found = 1
                      THEN /\ mActiveList' = mNext[chain[found]]
                           /\ UNCHANGED mNext
                      ELSE /\ mNext' = [mNext EXCEPT ![chain[found - 1]] = mNext[chain[found]]]
                           /\ UNCHANGED mActiveList
              ELSE /\ toFree' = << event >>
                   /\ UNCHANGED << mNext, mActiveList >>
    /\ UNCHANGED << mEventType, mObject, constructed, deleted, mPendingList, mFreeList, prodVars,
                    chead, clearing, pushed, nodeReq, sinceUpdate, doubleFree,
                    activeBefore, batch >>
    /\ UNCHANGED << renderVars, bufferVars, elementVars, stackVars, notifyVars, unitVars >>

\* case EventType::Clear: every active node, then the request node, is recycled;
\* SetHead(nullptr) follows the last FreeNode.
ProcessClear ==
    /\ cpc = "process"
    /\ mEventType[reversed] = "Clear"
    /\ reversed' = mNext[reversed]
    /\ replayLog' = Append(replayLog, nodeReq[reversed])
    /\ due' = due \ {nodeReq[reversed]}
    /\ toFree' = ClearFrees(Chain(mActiveList), reversed)
    /\ clearing' = TRUE
    /\ cpc' = "freeRead"
    /\ UNCHANGED << mNext, mEventType, mObject, constructed, deleted, mActiveList, mPendingList,
                    mFreeList, prodVars, chead, pushed, nodeReq, sinceUpdate,
                    doubleFree, activeBefore, batch >>
    /\ UNCHANGED << renderVars, bufferVars, elementVars, stackVars, notifyVars, unitVars >>

\* FreeNode -> mFreeList.PushAtomic(node): head_ = mHead; item->Next() = head_.
FreeRead ==
    /\ cpc = "freeRead"
    /\ chead' = mFreeList
    /\ doubleFree' = (doubleFree \/ OnFreeList(Head(toFree)))
    /\ mNext' = [mNext EXCEPT ![Head(toFree)] = mFreeList]
    /\ cpc' = "freeCAS"
    /\ UNCHANGED << mEventType, mObject, constructed, deleted, mActiveList, mPendingList,
                    mFreeList, prodVars, reversed, toFree, clearing, pushed,
                    replayLog, nodeReq, due, sinceUpdate, activeBefore, batch >>
    /\ UNCHANGED << renderVars, bufferVars, elementVars, stackVars, notifyVars, unitVars >>

\* FreeNode -> mFreeList.PushAtomic(node): CompareAndSwap(head_, item).  After the
\* last FreeNode of a Clear the active list's head is reset.
FreeCAS ==
    /\ cpc = "freeCAS"
    /\ IF CompareAndSwap(mFreeList, chead)
       THEN /\ mFreeList' = Head(toFree)
            /\ toFree' = Tail(toFree)
            /\ IF Len(toFree) = 1
               THEN /\ cpc' = NextEvent(reversed)
                    /\ clearing' = FALSE
                    /\ mActiveList' = IF clearing THEN Nil ELSE mActiveList
               ELSE /\ cpc' = "freeRead"
                    /\ UNCHANGED << clearing, mActiveList >>
       ELSE /\ cpc' = "freeRead"
            /\ UNCHANGED << mFreeList, toFree, clearing, mActiveList >>
    /\ chead' = Nil
    /\ UNCHANGED << mNext, mEventType, mObject, constructed, deleted, mPendingList, prodVars,
                    reversed, histVars >>
    /\ UNCHANGED << renderVars, bufferVars, elementVars, stackVars, notifyVars, unitVars >>

\* No call is in progress on any thread.
Quiescent == cpc = "idle" /\ \A t \in Producers : ppc[t] = "idle"

\* ~AUThreadSafeList(): FreeAll deletes every node of the active, the pending and
\* the free list.  No call is in progress, and none is made afterwards.
Destructor ==
    /\ Quiescent
    /\ deleted = {}
    /\ deleted' = SeqToSet(Chain(mActiveList)) \cup SeqToSet(Chain(mPendingList))
                     \cup SeqToSet(Chain(mFreeList))
    /\ mActiveList' = Nil
    /\ mPendingList' = Nil
    /\ mFreeList' = Nil
    /\ UNCHANGED << mNext, mEventType, mObject, constructed, prodVars, consVars,
                    histVars >>
    /\ UNCHANGED << renderVars, bufferVars, elementVars, stackVars, notifyVars, unitVars >>

\* The list has not been destroyed.
Alive == deleted = {}

\* ---------------------------------------------- the list's specification

\* The threads that make calls in SpecList (all three do in SpecThree).
ListThreads == {"t1", "t2"}

NextList ==
    \/ \E t \in ListThreads, obj \in Items : CallsMade < MaxCalls /\ Add(t, obj)
    \/ \E t \in ListThreads, obj \in Items : CallsMade < MaxCalls /\ Remove(t, obj)
    \/ \E t \in ListThreads : CallsMade < MaxCalls /\ Clear(t)
    \/ \E t \in ListThreads : AllocRead(t)
    \/ \E t \in ListThreads : AllocCAS(t)
    \/ \E t \in ListThreads : PushMultipleRead(t)
    \/ \E t \in ListThreads : PushMultipleCAS(t)
    \/ \E t \in ListThreads : PushRead(t)
    \/ \E t \in ListThreads : PushCAS(t)
    \/ UpdateBegin
    \/ UpdatePopRead
    \/ UpdatePopCAS
    \/ ProcessAdd
    \/ ProcessRemove
    \/ ProcessClear
    \/ FreeRead
    \/ FreeCAS

\* The list, new or recycled, of an audio unit that renders nothing meanwhile.
InitSpecList ==
    /\ InitList \/ InitRecycled
    /\ RenderQuiet
    /\ BufferQuiet
    /\ ElementQuiet
    /\ StackQuiet
    /\ NotifyQuiet
    /\ mInitialized = TRUE
    /\ canSchedule = TRUE
    /\ UnitQuiet

SpecList == InitSpecList /\ [][NextList]_vars

\* The same calls on a list whose active list holds items already.
InitSpecInUse ==
    /\ InitInUse
    /\ RenderQuiet
    /\ BufferQuiet
    /\ ElementQuiet
    /\ StackQuiet
    /\ NotifyQuiet
    /\ mInitialized = TRUE
    /\ canSchedule = TRUE
    /\ UnitQuiet

\* The calls of NextList until the list is destroyed.
NextInUse ==
    \/ \E t \in ListThreads, obj \in Items :
          CallsMade < MaxCalls /\ Alive /\ Add(t, obj)
    \/ \E t \in ListThreads, obj \in Items :
          CallsMade < MaxCalls /\ Alive /\ Remove(t, obj)
    \/ \E t \in ListThreads : CallsMade < MaxCalls /\ Alive /\ Clear(t)
    \/ \E t \in ListThreads : AllocRead(t)
    \/ \E t \in ListThreads : AllocCAS(t)
    \/ \E t \in ListThreads : PushMultipleRead(t)
    \/ \E t \in ListThreads : PushMultipleCAS(t)
    \/ \E t \in ListThreads : PushRead(t)
    \/ \E t \in ListThreads : PushCAS(t)
    \/ Alive /\ UpdateBegin
    \/ UpdatePopRead
    \/ UpdatePopCAS
    \/ ProcessAdd
    \/ ProcessRemove
    \/ ProcessClear
    \/ FreeRead
    \/ FreeCAS
    \/ Destructor

SpecInUse == InitSpecInUse /\ [][NextInUse]_vars

\* ------------------------------- the three-thread scenario of Add/Add/Remove

\* Thread t1 calls Add(X), once.
ThreeAddX ==
    /\ [type |-> "Add", obj |-> "X"] \notin SeqToSet(pushed)
    /\ Add("t1", "X")

\* Thread t2 calls Add(Y), once.
ThreeAddY ==
    /\ [type |-> "Add", obj |-> "Y"] \notin SeqToSet(pushed)
    /\ Add("t2", "Y")

\* Thread t3 calls Remove(X), once.
ThreeRemoveX ==
    /\ [type |-> "Remove", obj |-> "X"] \notin SeqToSet(pushed)
    /\ Remove("t3", "X")

\* The consumer thread calls Update() when all three calls have returned, once.
ThreeUpdate ==
    /\ Len(pushed) = 3
    /\ replayLog = << >>
    /\ UpdateBegin

\* The list is new, so the free list is empty while the calls run (every AllocNode
\* constructs), and nothing is pushed while Update() runs (its PopAll succeeds at
\* the first attempt).
NextThree ==
    \/ ThreeAddX
    \/ ThreeAddY
    \/ ThreeRemoveX
    \/ \E t \in Producers : PushRead(t)
    \/ \E t \in Producers : PushCAS(t)
    \/ ThreeUpdate
    \/ UpdatePopCAS
    \/ ProcessAdd
    \/ ProcessRemove
    \/ FreeRead
    \/ FreeCAS

InitSpecThree ==
    /\ InitList
    /\ RenderQuiet
    /\ BufferQuiet
    /\ ElementQuiet
    /\ StackQuiet
    /\ NotifyQuiet
    /\ mInitialized = TRUE
    /\ canSchedule = TRUE
    /\ UnitQuiet

SpecThree == InitSpecThree /\ [][NextThree]_vars

\* ------------------------------------------------- claims about the list

\* The position of request [type, obj] in `pushed` (0: not pushed).
PushIndex(type, obj) ==
    IF \E i \in 1..Len(pushed) : pushed[i] = [type |-> type, obj |-> obj]
    THEN CHOOSE i \in 1..Len(pushed) : pushed[i] = [type |-> type, obj |-> obj]
    ELSE 0

CountIn(seq, x) == Cardinality({ i \in 1..Len(seq) : seq[i] = x })

NoDuplicates(seq) == \A i, j \in 1..Len(seq) : i # j => seq[i] # seq[j]

\* Add(X), Add(Y) and Remove(X) have all returned, and then the one Update() has
\* run to its end.
ThreeThenOneUpdate ==
    /\ Len(pushed) = 3
    /\ sinceUpdate = SinceUpdated
    /\ cpc = "idle"

\* C1, as stated: after Add(X), Add(Y) and Remove(X) from three threads, in any
\* interleaving, a single Update() leaves the active list holding exactly Y.
C1_AsStated == ThreeThenOneUpdate => ActiveItems = << "Y" >>

\* C1, amended: after Add(X), Add(Y) and Remove(X) from three threads and a single
\* Update(), the active list holds exactly Y when Add(X) was pushed before
\* Remove(X); when Remove(X) was pushed first it removes nothing and the list holds
\* exactly X and Y, once each.
C1_ThreeThreads ==
    ThreeThenOneUpdate =>
        IF PushIndex("Add", "X") < PushIndex("Remove", "X")
        THEN ActiveItems = << "Y" >>
        ELSE Len(ActiveItems) = 2 /\ SeqToSet(ActiveItems) = {"X", "Y"}

C1_Witness ==
    /\ ThreeThenOneUpdate
    /\ PushIndex("Add", "X") < PushIndex("Remove", "X")
    /\ PushIndex("Add", "Y") > PushIndex("Remove", "X")
    /\ ActiveItems = << "Y" >>

\* The requests Update() has detached and not yet replayed.
Detached == IF cpc \in {"process", "freeRead", "freeCAS"} THEN RequestsOn(reversed) ELSE << >>

\* C2: every pushed request is replayed by exactly one Update(): at any moment it
\* is counted once among the pending stack, the requests Update() holds detached,
\* and the requests replayed so far.
C2_ExactlyOnce ==
    \A r \in 1..Len(pushed) :
        CountIn(RequestsOn(mPendingList), r) + CountIn(Detached, r)
            + CountIn(replayLog, r) = 1

\* Update() is replaying while a request pushed after it began waits on the
\* pending stack, and every request pushed before has been replayed.
C2_Witness ==
    /\ cpc \in {"freeRead", "freeCAS"}
    /\ sinceUpdate = SincePush
    /\ due = {}
    /\ Len(replayLog) >= 1
    /\ CountIn(RequestsOn(mPendingList), Len(pushed)) = 1

\* C3: when Update() has returned, every request whose call had returned before
\* that Update() began has been replayed.
C3_VisibleByUpdate == cpc = "idle" => due = {}

\* Two calls returned, the later one after the Update() before the latest began
\* and before the latest began; the latest has returned and both are replayed.
C3_Witness ==
    /\ cpc = "idle"
    /\ sinceUpdate = SinceUpdated
    /\ Len(pushed) >= 2
    /\ Len(replayLog) = Len(pushed)
    /\ \E i \in 1..Len(pushed) : pushed[i].type = "Clear"

\* C4: between Update() calls the active list never holds two equal items.
C4_NoDuplicates == cpc = "idle" => NoDuplicates(ActiveItems)

\* Add(X) was called twice before an Update(), which has returned.
C4_Witness ==
    /\ cpc = "idle"
    /\ sinceUpdate = SinceUpdated
    /\ Len(pushed) = 2
    /\ replayLog = << 1, 2 >>
    /\ pushed[1] = [type |-> "Add", obj |-> "X"]
    /\ pushed[2] = [type |-> "Add", obj |-> "X"]
    /\ CountIn(ActiveItems, "X") = 1

\* C5: at every quiescent point each constructed node is on exactly one of the
\* free, active and pending lists, and no node was ever handed to FreeNode while
\* on the free list.
C5_Conservation ==
    /\ ~doubleFree
    /\ Quiescent =>
        LET all == Chain(mFreeList) \o Chain(mActiveList) \o Chain(mPendingList)
        IN  /\ NoDuplicates(all)
            /\ SeqToSet(all) = 1..constructed

\* Add(X), then Remove(X), both replayed: both nodes are on the free list.
C5_Witness ==
    /\ Quiescent
    /\ pushed = << [type |-> "Add", obj |-> "X"], [type |-> "Remove", obj |-> "X"] >>
    /\ Len(replayLog) = 2
    /\ constructed = 2
    /\ Len(Chain(mFreeList)) = 2
    /\ mActiveList = Nil

\* C6: an Update() that returns without any request having been pushed since the
\* Update() before it began leaves the active list, items and order, as it was.
C6_Idempotent ==
    (cpc = "idle" /\ sinceUpdate.kind = "quiet") => ActiveItems = sinceUpdate.items

\* The second of two Update() calls in a row has returned; the list holds two items.
C6_Witness ==
    /\ cpc = "idle"
    /\ sinceUpdate.kind = "quiet"
    /\ Len(ActiveItems) = 2

\* --------------------------------------------------------- machine words

Modulus == 2 ^ WordBits

\* The largest UInt32 and the largest SInt32, at the model's width.
MaxUInt == Modulus - 1
MaxSInt == (Modulus \div 2) - 1

\* static_cast<UInt32>(x), and arithmetic in UInt32.
ToUInt(x) == x % Modulus

\* static_cast<SInt32>(x).
ToSInt(x) == IF x % Modulus > MaxSInt THEN (x % Modulus) - Modulus ELSE x % Modulus

Min(a, b) == IF a < b THEN a ELSE b

\* ------------------------------------------------------- parameter events

\* An AudioUnitParameterEvent of type kParameterEvent_Immediate: `bufferOffset` is
\* eventValues.immediate.bufferOffset (UInt32).  All events address the one element
\* whose parameters are mParameters.
Immediate(p, offset, v) ==
    [eventType |-> "Immediate", parameter |-> p, bufferOffset |-> offset,
     value |-> v, durationInFrames |-> 0]

\* An AudioUnitParameterEvent of type kParameterEvent_Ramped: `bufferOffset` is
\* eventValues.ramp.startBufferOffset (SInt32).
Ramped(p, start, duration) ==
    [eventType |-> "Ramped", parameter |-> p, bufferOffset |-> start,
     value |-> InitialValue, durationInFrames |-> duration]

\* The events the model schedules.  Ramps start one frame before the block or one
\* frame into it and last one or two frames, so start + duration stays in SInt32.
ImmediateEvents ==
    { Immediate(p, o, v) : p \in ParamIDs, o \in 0..(MaxFrames - 1), v \in Values }

RampedEvents == { Ramped("A", s, d) : s \in {-1, 1}, d \in {1, 2} }

Events == ImmediateEvents \cup RampedEvents

\* All event lists of at most n events.
EventLists(n) == UNION { [1..k -> Events] : k \in 0..n }

\* The frame counts ProcessForScheduledParams is run on in SpecSlice: the small
\* ones, the first that is negative as an SInt32, and the largest UInt32.
FrameCounts == (0..MaxFrames) \cup {MaxSInt + 1, MaxUInt}

\* The lambda bufferOffset of ParameterEventListSortPredicate, also computed at the
\* head of the break-point loop: where the event starts, as an SInt32.
StartOffset(event) ==
    IF event.eventType = "Immediate" THEN ToSInt(event.bufferOffset)
    ELSE event.bufferOffset

ParameterEventListSortPredicate(ev1, ev2) == StartOffset(ev1) < StartOffset(ev2)

\* What std::ranges::sort may leave in the list: any arrangement of its events in
\* which no event comes before one that the predicate orders before it (the sort is
\* not stable).
SortResults(list) ==
    { s \in { [ i \in 1..Len(list) |-> list[q[i]] ] : q \in Permutations(1..Len(list)) } :
        \A i, j \in 1..Len(s) : i < j => ~ParameterEventListSortPredicate(s[j], s[i]) }

\* A ramp taken to end where it starts: the mutant of RampEnd.
RampEndAtStart(event) == event.bufferOffset

\* Where a ramp ends: startBufferOffset + static_cast<SInt32>(durationInFrames).
RampEnd(event) == event.bufferOffset + ToSInt(event.durationInFrames)

\* Slices of one frame each: the mutant of CurrentEndFrame.
CurrentEndFrameNextFrame(list, i, cs, ce) == ToUInt(cs + 1)

\* A break-point loop that also takes an event starting at the cursor: the mutant
\* of CurrentEndFrame.
RECURSIVE CurrentEndFrameInclusive(_, _, _, _)
CurrentEndFrameInclusive(list, i, cs, ce) ==
    IF i > Len(list) THEN ce
    ELSE IF StartOffset(list[i]) >= ToSInt(cs) /\ StartOffset(list[i]) < ToSInt(ce)
         THEN ToUInt(StartOffset(list[i]))
    ELSE IF /\ list[i].eventType = "Ramped"
            /\ RampEnd(list[i]) > ToSInt(cs)
            /\ RampEnd(list[i]) < ToSInt(ce)
         THEN CurrentEndFrameInclusive(list, i + 1, cs, ToUInt(RampEnd(list[i])))
    ELSE CurrentEndFrameInclusive(list, i + 1, cs, ce)

\* The break-point loop from event i on: currentEndFrame when the loop is left, ce
\* being its value so far.  An event that starts strictly inside (cs, ce) ends the
\* slice there and the loop; a ramp that ends strictly inside moves ce.
RECURSIVE CurrentEndFrame(_, _, _, _)
CurrentEndFrame(list, i, cs, ce) ==
    IF i > Len(list) THEN ce
    ELSE IF StartOffset(list[i]) > ToSInt(cs) /\ StartOffset(list[i]) < ToSInt(ce)
         THEN ToUInt(StartOffset(list[i]))
    ELSE IF /\ list[i].eventType = "Ramped"
            /\ RampEnd(list[i]) > ToSInt(cs)
            /\ RampEnd(list[i]) < ToSInt(ce)
         THEN CurrentEndFrame(list, i + 1, cs, ToUInt(RampEnd(list[i])))
    ELSE CurrentEndFrame(list, i + 1, cs, ce)

\* An immediate event counted only when it lies strictly before the slice: the
\* mutant of EventFallsInSlice.
EventFallsInSliceStrict(event, cs, ce) ==
    IF event.eventType = "Ramped"
    THEN event.bufferOffset < ToSInt(ce) /\ RampEnd(event) > ToSInt(cs)
    ELSE event.bufferOffset < cs

\* eventFallsInSlice of the second loop.
EventFallsInSlice(event, cs, ce) ==
    IF event.eventType = "Ramped"
    THEN event.bufferOffset < ToSInt(ce) /\ RampEnd(event) > ToSInt(cs)
    ELSE event.bufferOffset <= cs

\* AUElement::SetParameter for a parameter the element has: the value is stored.
AUElementSetParameter(params, paramID, inValue) == [params EXCEPT ![paramID] = inValue]

\* A SetScheduledEvent that stores the value field of every event, ramped ones
\* included: the mutant of SetScheduledEvent.
SetScheduledEventAny(params, inEvent) ==
    AUElementSetParameter(params, inEvent.parameter, inEvent.value)

\* AUElement::SetScheduledEvent: a ramped event is ignored, an immediate one sets
\* the parameter.
SetScheduledEvent(params, inEvent) ==
    IF inEvent.eventType # "Immediate" THEN params
    ELSE AUElementSetParameter(params, inEvent.parameter, inEvent.value)

\* The values the second loop hands to SetParameter for parameter p in the slice
\* [cs, ce), in list order: those of the immediate events for p that fall in it.
AppliedFor(list, p, cs, ce) ==
    SelectSeq(list, LAMBDA e : /\ e.eventType = "Immediate"
                               /\ e.parameter = p
                               /\ EventFallsInSlice(e, cs, ce))

\* The second loop from event i on: every event that falls in the slice is handed
\* to SetScheduledEvent, in list order.
RECURSIVE ApplyEvents(_, _, _, _, _)
ApplyEvents(list, i, params, cs, ce) ==
    IF i > Len(list) THEN params
    ELSE ApplyEvents(list, i + 1,
                     IF EventFallsInSlice(list[i], cs, ce)
                     THEN SetScheduledEvent(params, list[i]) ELSE params,
                     cs, ce)

\* A loop that goes on after a failed slice: the mutant of StopOnError.
ContinueOnError(status) == FALSE

\* if (result != noErr) break;
StopOnError(status) == status # NoErr

\* --------------------------------------------- ProcessForScheduledParams

\* ProcessForScheduledParams is entered by the render code: the locals are set
\* up and the list is sorted.  With no frames to process the loop is not
\* entered and noErr is returned.
ProcessForScheduledParams ==
    /\ rpc = "renderBus"
    /\ spc = "idle"
    /\ \E sorted \in SortResults(mParamEventList) : mParamEventList' = sorted
    /\ framesRemaining' = inFramesToProcess
    /\ currentStartFrame' = 0
    /\ result' = NoErr
    /\ slices' = << >>
    /\ spc' = IF inFramesToProcess > 0 THEN "loop" ELSE "returned"
    /\ UNCHANGED << mParameters, mInitialized, canSchedule, rpc, inFramesToProcess,
                    lastRender, lastScheduled, listVars, bufferVars, elementVars, stackVars, notifyVars, unitVars >>

\* One pass of the while loop: the end of the slice is found, the events that
\* fall in the slice are applied, ProcessScheduledSlice is called and returns
\* `status`; an error leaves the loop, otherwise the slice is consumed.
ProcessSlice(status) ==
    /\ spc = "loop"
    /\ LET currentEndFrame ==
               CurrentEndFrame(mParamEventList, 1, currentStartFrame, inFramesToProcess)
           framesThisTime == ToUInt(currentEndFrame - currentStartFrame)
           params == ApplyEvents(mParamEventList, 1, mParameters, currentStartFrame,
                                 currentEndFrame)
           remaining == framesRemaining - Min(framesThisTime, framesRemaining)
       IN  /\ mParameters' = params
           /\ slices' = Append(slices, [start |-> currentStartFrame,
                                        frames |-> framesThisTime,
                                        params |-> params,
                                        result |-> status])
           /\ result' = status
           /\ lastScheduled' = [p \in ParamIDs |->
                           IF AppliedFor(mParamEventList, p, currentStartFrame,
                                         currentEndFrame) = << >>
                           THEN lastScheduled[p] ELSE << >>]
           /\ IF StopOnError(status)
              THEN /\ spc' = "returned"
                   /\ UNCHANGED << framesRemaining, currentStartFrame >>
              ELSE /\ framesRemaining' = remaining
                   /\ currentStartFrame' = currentEndFrame
                   /\ spc' = IF remaining > 0 THEN "loop" ELSE "returned"
    /\ UNCHANGED << mParamEventList, mInitialized, canSchedule, rpc, inFramesToProcess,
                    lastRender, listVars, bufferVars, elementVars, stackVars, notifyVars, unitVars >>

\* ProcessForScheduledParams called on any list of at most MaxEvents events and
\* any of the frame counts, by the render code of an initialized audio unit.
InitSlice ==
    /\ InitList
    /\ BufferQuiet
    /\ ElementQuiet
    /\ StackQuiet
    /\ NotifyQuiet
    /\ mParamEventList \in EventLists(MaxEvents)
    /\ inFramesToProcess \in FrameCounts
    /\ mParameters = [p \in ParamIDs |-> InitialValue]
    /\ mInitialized = TRUE
    /\ canSchedule = TRUE
    /\ rpc = "renderBus"
    /\ spc = "idle"
    /\ framesRemaining = 0
    /\ currentStartFrame = 0
    /\ result = NoErr
    /\ slices = << >>
    /\ lastRender = "none"
    /\ lastScheduled = NothingWritten
    /\ UnitQuiet

NextSlice ==
    \/ ProcessForScheduledParams
    \/ \E status \in {NoErr, SliceError} : ProcessSlice(status)

SpecSlice == InitSlice /\ [][NextSlice]_vars

\* The same call made by a thread that keeps running and whose
\* ProcessScheduledSlice callbacks all return: a step that is possible is
\* eventually taken.
SpecSliceLive == SpecSlice /\ WF_vars(NextSlice)

\* ----------------------------------------- claims about the slicing loop

\* The set of the events of a list.
EventsOf(list) == { list[i] : i \in 1..Len(list) }

\* The list holds immediate events only, all for parameter p, at pairwise distinct
\* offsets inside the block, one of them at offset 0.
ImmediateForOne(p) ==
    /\ \A i \in 1..Len(mParamEventList) :
          /\ mParamEventList[i].eventType = "Immediate"
          /\ mParamEventList[i].parameter = p
          /\ mParamEventList[i].bufferOffset < inFramesToProcess
    /\ \A i, j \in 1..Len(mParamEventList) :
          i # j => mParamEventList[i].bufferOffset # mParamEventList[j].bufferOffset
    /\ \E i \in 1..Len(mParamEventList) : mParamEventList[i].bufferOffset = 0

\* The k-th smallest member of a set of numbers.
KthSmallest(S, k) == CHOOSE x \in S : Cardinality({ y \in S : y < x }) = k - 1

\* The calls made so far are the first calls of: one call per event, in offset
\* order, each for the frames from its event's offset to the next event's offset
\* (the block's end for the last), with parameter p at its event's value; and when
\* ProcessForScheduledParams has returned noErr the calls are all of them.
SlicedAtOffsets(p) ==
    LET offsets == { e.bufferOffset : e \in EventsOf(mParamEventList) }
        bounds == offsets \cup {inFramesToProcess}
    IN  /\ Len(slices) <= Cardinality(offsets)
        /\ \A k \in 1..Len(slices) :
              /\ k <= Cardinality(offsets)
              /\ slices[k].start = KthSmallest(bounds, k)
              /\ slices[k].start + slices[k].frames = KthSmallest(bounds, k + 1)
              /\ \E e \in EventsOf(mParamEventList) :
                    /\ e.bufferOffset = slices[k].start
                    /\ slices[k].params[p] = e.value
        /\ (spc = "returned" /\ result = NoErr) => Len(slices) = Cardinality(offsets)

\* C7, as stated: given immediate events for one parameter at pairwise distinct
\* offsets in [0,N), one at offset 0, ProcessForScheduledParams over N frames calls
\* back once per slice, the slices bounded by 0, the event offsets and N, with the
\* parameter at the value of the event with the greatest offset <= the slice start.
C7_AsStated == \A p \in ParamIDs : ImmediateForOne(p) => SlicedAtOffsets(p)

\* C7, for frame counts that are not negative as an SInt32: the same.
C7_SlicedAtOffsets ==
    \A p \in ParamIDs :
        (ImmediateForOne(p) /\ inFramesToProcess <= MaxSInt) => SlicedAtOffsets(p)

\* N = MaxFrames with A@0 = 1 and A@(MaxFrames-1) = 2, scheduled in the opposite
\* order: two calls, [0, MaxFrames-1) with A = 1 and [MaxFrames-1, MaxFrames) with
\* A = 2.
C7_Witness ==
    /\ spc = "returned"
    /\ inFramesToProcess = MaxFrames
    /\ mParamEventList = << Immediate("A", 0, 1), Immediate("A", MaxFrames - 1, 2) >>
    /\ Len(slices) = 2
    /\ slices[1].start = 0 /\ slices[1].frames = MaxFrames - 1
    /\ slices[1].params["A"] = 1
    /\ slices[2].start = MaxFrames - 1 /\ slices[2].frames = 1
    /\ slices[2].params["A"] = 2

\* C8: with an empty event list and N > 0 frames the callback is invoked exactly
\* once, with start frame 0 and slice length N.
C8_EmptyListOneSlice ==
    (mParamEventList = << >> /\ inFramesToProcess > 0) =>
        /\ \A k \in 1..Len(slices) :
              k = 1 /\ slices[k].start = 0 /\ slices[k].frames = inFramesToProcess
        /\ spc = "returned" => Len(slices) = 1

C8_Witness ==
    /\ mParamEventList = << >>
    /\ inFramesToProcess = MaxFrames
    /\ spc = "returned"
    /\ Len(slices) = 1
    /\ slices[1].start = 0
    /\ slices[1].frames = MaxFrames

\* C10: a call of ProcessScheduledSlice that returned an error is the last call,
\* ProcessForScheduledParams has returned that error, and the parameters are as
\* they were when the call was made.
C10_StopAtError ==
    \A k \in 1..Len(slices) :
        slices[k].result # NoErr =>
            /\ k = Len(slices)
            /\ spc = "returned"
            /\ result = slices[k].result
            /\ mParameters = slices[k].params

\* The second slice failed while an event of a later slice was still to be applied.
C10_Witness ==
    /\ spc = "returned"
    /\ result = SliceError
    /\ Len(slices) = 2
    /\ slices[1].result = NoErr
    /\ \E e \in EventsOf(mParamEventList) :
          /\ e.eventType = "Immediate"
          /\ e.bufferOffset > currentStartFrame
          /\ e.bufferOffset < inFramesToProcess
          /\ mParameters[e.parameter] # e.value

\* ------------------------------------------------- sizes in bytes (UInt32)

\* The width of UInt32 in the buffer model: wide enough for the header limit,
\* kMaxBufferListSize / sizeof(AudioBuffer), to be a UInt32.
SizeBits == 13

SizeModulus == 2 ^ SizeBits

\* 0xFFFFFFFF at the model's width.
MaxSize == SizeModulus - 1

\* Arithmetic in UInt32.
ToSize(x) == x % SizeModulus

\* ------------------------------------------- stream formats and buffers

\* An AudioStreamBasicDescription, as far as the buffer code reads it.
Format(interleaved, channels, bytesPerFrame) ==
    [interleaved |-> interleaved, mChannelsPerFrame |-> channels,
     mBytesPerFrame |-> bytesPerFrame]

\* ASBD::IsInterleaved, ASBD::NumberChannelStreams.
IsInterleaved(format) == format.interleaved
NumberChannelStreams(format) ==
    IF IsInterleaved(format) THEN 1 ELSE format.mChannelsPerFrame

\* An AudioBuffer.
AudioBuffer(channels, byteSize, data) ==
    [mNumberChannels |-> channels, mDataByteSize |-> byteSize, mData |-> data]

\* A pointer into the memory that BufferAllocator::Allocate obtained (mBufferData),
\* into the i-th buffer a host owns, into the i-th buffer of a destination list.
MyMemory(offset) == [region |-> "mine", offset |-> offset]
ExternalMemory(i) == [region |-> "external", offset |-> i * SizeModulus]
DestMemory(i) == [region |-> "destination", offset |-> i * SizeModulus]

\* --------------------------------------- BufferAllocator::Allocate's result

\* BufferAllocator::Allocate's constants, and sizeof(AudioBuffer).
kAlignment == 16
kMaxBufferListSize == 65536
SizeofAudioBuffer == 16

\* (x + mask) & ~mask with mask = y - 1, y a power of 2: the sum, in UInt32, with
\* the bits below y cleared.
RoundUpToMultipleOfPowerOf2(x, y) ==
    LET mask == y - 1
        sum == ToSize(x + mask)
    IN  sum - (sum % y)

\* A multiplication that is never refused: the mutant of SafeMultiplyAddThrows.
SafeMultiplyAddNeverThrows(a, b, c) == FALSE

\* SafeMultiplyAddUInt32 calls ThrowBadAlloc.
SafeMultiplyAddThrows(a, b, c) ==
    /\ a # 0
    /\ b # 0
    /\ a > (MaxSize - c) \div b

\* SafeMultiplyAddUInt32 when it returns: a * b + c.
SafeMultiplyAddUInt32(a, b, c) ==
    IF a = 0 \/ b = 0 THEN c ELSE ToSize(a * b + c)

\* BufferAllocator::Allocate: what it throws, or the fields of the AllocatedBuffer
\* it returns.  malloc is taken to succeed.
BufferAllocatorAllocate(numberBuffers, maxBytesPerBuffer) ==
    IF numberBuffers > kMaxBufferListSize \div SizeofAudioBuffer
    THEN [status |-> "out_of_range"]
    ELSE LET rounded == RoundUpToMultipleOfPowerOf2(maxBytesPerBuffer, kAlignment)
         IN  IF SafeMultiplyAddThrows(numberBuffers, rounded, 0)
             THEN [status |-> "bad_alloc"]
             ELSE [status |-> "ok",
                   mMaximumNumberBuffers |-> numberBuffers,
                   mMaximumBytesPerBuffer |-> rounded,
                   mBufferDataSize |-> SafeMultiplyAddUInt32(numberBuffers, rounded, 0)]

\* ------------------------------------------ ScheduleParameter and DoRender

\* The events ScheduleParameter is called with in SpecRender.
ScheduledEvents ==
    { Immediate("A", o, v) : o \in {0, MaxFrames - 1}, v \in Values }
        \cup { Ramped("A", 1, 1) }

\* An AudioBufferList a host hands to DoRender.
HostList(buffers) == [mNumberBuffers |-> Len(buffers), mBuffers |-> buffers]

\* The calls of DoRender a host makes, on output bus 0 unless said otherwise: with
\* one buffer that is null, of 2 bytes, or of more bytes than MaxFrames frames of
\* 2 bytes take, or with two buffers; for 1 to mMaxFramesPerSlice + 1 frames; for
\* an empty block; and for a bus that does not exist.
RenderCalls ==
    LET call(f, bus, b) == [inFrames |-> f, inBusNumber |-> bus, ioData |-> HostList(b)]
        null == AudioBuffer(2, 0, NullPtr)
        small == AudioBuffer(2, 2, ExternalMemory(1))
        large == AudioBuffer(2, 2 * MaxFrames + 2, ExternalMemory(2))
    IN  { call(1, 0, << small >>), call(2, 0, << small >>), call(2, 0, << null >>),
          call(1, 0, << large >>), call(2, 0, << large >>),
          call(MaxFrames, 0, << large >>), call(MaxFrames + 1, 0, << large >>),
          call(2, 0, << large, small >>), call(2, 0, << large, large >>),
          call(0, 0, << large >>), call(1, 1, << large >>) }

\* The formats of the output bus: interleaved and non-interleaved stereo of 2
\* bytes a frame, and one whose frames are half the UInt32 range wide.
OutputFormats ==
    { Format(TRUE, 2, 2), Format(FALSE, 2, 2), Format(TRUE, 1, SizeModulus \div 2) }

\* An entry of renderLog.
LogEntry(what, arg, flag) == [what |-> what, arg |-> arg, flag |-> flag]

\* const unsigned expectedBufferByteSize =
\*     inFramesToProcess * output.GetStreamFormat().mBytesPerFrame;
ExpectedBufferByteSize(inFrames, format) == ToSize(inFrames * format.mBytesPerFrame)

\* A buffer loop that accepts every size: the mutant of BufferTooSmall.
BufferTooSmallNever(buf, expected) == FALSE

\* buf.mData != nullptr and buf.mDataByteSize < expectedBufferByteSize
BufferTooSmall(buf, expected) == buf.mData # NullPtr /\ buf.mDataByteSize < expected

\* The buffer loop: the first buffer it finds too small, 0 if it finds none.
FirstTooSmall(data, expected) ==
    LET bad == { i \in 1..data.mNumberBuffers : BufferTooSmall(data.mBuffers[i], expected) }
    IN  IF bad = {} THEN 0 ELSE CHOOSE i \in bad : \A j \in bad : i <= j

\* ioData as the buffer loop leaves it: every non-null buffer it examined before
\* it was left has buf.mDataByteSize = expectedBufferByteSize.
SizedData(data, expected) ==
    LET stop == FirstTooSmall(data, expected)
        last == IF stop = 0 THEN data.mNumberBuffers ELSE stop - 1
    IN  [data EXCEPT !.mBuffers =
            [ i \in 1..data.mNumberBuffers |->
                IF i <= last /\ data.mBuffers[i].mData # NullPtr
                THEN [data.mBuffers[i] EXCEPT !.mDataByteSize = expected]
                ELSE data.mBuffers[i] ]]

\* What DoRender checks before anything else, in the order of the code: the error
\* of the first check that fails (noErr if none does), whether it was thrown, by
\* Output(inBusNumber), rather than returned, and ioData as the checks leave it.
RenderCheck(inFrames, inBusNumber, data) ==
    LET expected == ExpectedBufferByteSize(inFrames, outputFormat)
        outcome(error, thrown, d) == [error |-> error, thrown |-> thrown, data |-> d]
    IN  IF ~mInitialized
        THEN outcome("kAudioUnitErr_Uninitialized", FALSE, data)
        ELSE IF inFrames > mMaxFramesPerSlice
        THEN outcome("kAudioUnitErr_TooManyFramesToProcess", FALSE, data)
        ELSE IF usesFixedBlockSize /\ inFrames # mMaxFramesPerSlice
        THEN outcome("kAudio_ParamError", FALSE, data)
        ELSE IF inBusNumber # 0
        THEN outcome("kAudioUnitErr_InvalidElement", TRUE, data)
        ELSE IF NumberChannelStreams(outputFormat) # data.mNumberBuffers
        THEN outcome("kAudio_ParamError", FALSE, data)
        ELSE outcome(IF FirstTooSmall(data, expected) # 0 THEN "kAudio_ParamError" ELSE NoErr,
                     FALSE, SizedData(data, expected))

\* A SetParameter that stores nothing: the mutant of AUBaseSetParameter.
AUBaseSetParameterDeferred(params, inID, inValue) == params

\* AUBase::SetParameter: the element's SetParameter.
AUBaseSetParameter(params, inID, inValue) == AUElementSetParameter(params, inID, inValue)

\* Output(0).GetStreamFormat() and Input(0).GetStreamFormat().
StreamFormat(e) == IF e = "Output0" THEN outputFormat ELSE inputFormat

\* What the Initialize() hook of a subclass may return.
InitializeResults == {NoErr, "kAudioUnitErr_FailedInitialization"}

\* AUIOElement::AllocateBuffer() of element e, whose mIOBuffer owns `buffer`: once
\* initialization has begun, mIOBuffer.Allocate(mStreamFormat, max frames), which
\* gives up what it owns and then either owns the new region or throws what
\* BufferAllocator::Allocate throws.
AllocateBuffer(e, buffer, begun, maxFrames) ==
    IF ~begun THEN [buffer |-> buffer, thrown |-> FALSE]
    ELSE LET format == StreamFormat(e)
             got == BufferAllocatorAllocate(NumberChannelStreams(format),
                                            ToSize(maxFrames * format.mBytesPerFrame))
         IN  IF got.status = "ok"
             THEN [buffer |-> IOBufferFor(format, maxFrames), thrown |-> FALSE]
             ELSE [buffer |-> NoIOBuffer, thrown |-> TRUE]

\* The loops of ReallocateBuffers from element i on; an exception leaves them.
RECURSIVE ReallocateFrom(_, _, _, _)
ReallocateFrom(i, buffers, begun, maxFrames) ==
    IF i > Len(IOElements) THEN [buffers |-> buffers, thrown |-> FALSE]
    ELSE LET e == IOElements[i]
             r == AllocateBuffer(e, buffers[e], begun, maxFrames)
             next == [buffers EXCEPT ![e] = r.buffer]
         IN  IF r.thrown THEN [buffers |-> next, thrown |-> TRUE]
             ELSE ReallocateFrom(i + 1, next, begun, maxFrames)

\* AUBase::ReallocateBuffers: the buffers it leaves and whether it threw; when it
\* returns the caller's mBuffersAllocated is true.
ReallocateBuffers(buffers, begun, maxFrames) == ReallocateFrom(1, buffers, begun, maxFrames)

\* A DeallocateIOBuffers that frees nothing: the mutant of DeallocateIOBuffers.
DeallocateIOBuffersKept(allocated, buffers) == buffers

\* AUBase::DeallocateIOBuffers: the buffers it leaves; mBuffersAllocated is false
\* when it returns.
DeallocateIOBuffers(allocated, buffers) ==
    IF ~allocated THEN buffers
    ELSE [e \in DOMAIN buffers |-> NoIOBuffer]

\* AUBase::DoInitialize, between two DoRender calls, with an Initialize() hook that
\* returns `hook`.
DoInitialize(hook) ==
    /\ rpc = "idle"
    /\ IF mInitialized
       THEN /\ initCall' = [op |-> "DoInitialize", status |-> NoErr]
            /\ UNCHANGED << mInitialized, mHasBegunInitializing, mBuffersAllocated,
                            mIOBuffer, initThrew >>
       ELSE IF hook # NoErr
       THEN /\ initCall' = [op |-> "DoInitialize", status |-> hook]
            /\ UNCHANGED << mInitialized, mHasBegunInitializing, mBuffersAllocated,
                            mIOBuffer, initThrew >>
       ELSE LET r == ReallocateBuffers(mIOBuffer, TRUE, mMaxFramesPerSlice)
            IN  /\ mHasBegunInitializing' = TRUE
                /\ mIOBuffer' = r.buffers
                /\ mBuffersAllocated' = IF r.thrown THEN mBuffersAllocated ELSE TRUE
                /\ mInitialized' = ~r.thrown
                /\ initThrew' = r.thrown
                /\ initCall' = [op |-> "DoInitialize",
                                status |-> IF r.thrown THEN "thrown" ELSE NoErr]
    /\ UNCHANGED << mParamEventList, mParameters, canSchedule, rpc, spc,
                    inFramesToProcess, framesRemaining, currentStartFrame, result,
                    slices, lastRender, lastScheduled, listVars, bufferVars, elementVars,
                    stackVars, notifyVars, mMaxFramesPerSlice, inputFormat >>

\* AUBase::DoCleanup, between two DoRender calls.
DoCleanup ==
    /\ rpc = "idle"
    /\ mIOBuffer' = DeallocateIOBuffers(mBuffersAllocated, mIOBuffer)
    /\ mBuffersAllocated' = FALSE
    /\ mInitialized' = FALSE
    /\ mHasBegunInitializing' = FALSE
    /\ initCall' = [op |-> "DoCleanup", status |-> NoErr]
    /\ UNCHANGED << mParamEventList, mParameters, canSchedule, rpc, spc,
                    inFramesToProcess, framesRemaining, currentStartFrame, result,
                    slices, lastRender, lastScheduled, listVars, bufferVars, elementVars,
                    stackVars, notifyVars, mMaxFramesPerSlice, inputFormat, initThrew >>

\* AUBase::SetMaxFramesPerSlice(nFrames), between two DoRender calls.
SetMaxFramesPerSlice(nFrames) ==
    /\ rpc = "idle"
    /\ IF nFrames = mMaxFramesPerSlice
       THEN /\ initCall' = [op |-> "SetMaxFramesPerSlice", status |-> NoErr]
            /\ UNCHANGED << mMaxFramesPerSlice, mIOBuffer >>
       ELSE LET r == IF mBuffersAllocated
                     THEN ReallocateBuffers(mIOBuffer, mHasBegunInitializing, nFrames)
                     ELSE [buffers |-> mIOBuffer, thrown |-> FALSE]
            IN  /\ mMaxFramesPerSlice' = nFrames
                /\ mIOBuffer' = r.buffers
                /\ initCall' = [op |-> "SetMaxFramesPerSlice",
                                status |-> IF r.thrown THEN "thrown" ELSE NoErr]
    /\ UNCHANGED << renderVars, listVars, bufferVars, elementVars, stackVars, notifyVars,
                    mHasBegunInitializing, mBuffersAllocated, inputFormat, initThrew >>

\* AUBase::ScheduleParameter with one event, called between two DoRender calls or
\* from a pre-render notification: an immediate event sets its parameter at once,
\* and the event is queued when the audio unit can schedule parameters.
ScheduleParameter(pe) ==
    /\ rpc \in {"idle", "preRender"}
    /\ Len(mParamEventList) < MaxEvents
    /\ mParameters' = IF pe.eventType = "Immediate"
                      THEN AUBaseSetParameter(mParameters, pe.parameter, pe.value)
                      ELSE mParameters
    /\ mParamEventList' = IF canSchedule THEN Append(mParamEventList, pe)
                          ELSE mParamEventList
    /\ lastScheduled' = IF pe.eventType = "Immediate"
                  THEN [lastScheduled EXCEPT ![pe.parameter] = << pe.value >>]
                  ELSE lastScheduled
    /\ lastRender' = "none"
    /\ slices' = << >>
    /\ UNCHANGED << mInitialized, canSchedule, rpc, spc, inFramesToProcess,
                    framesRemaining, currentStartFrame, result, listVars, bufferVars, elementVars, stackVars, notifyVars, unitVars >>

\* AUBase::DoRender up to the call of mRenderCallbacks.Update(): a check that
\* fails makes it return errorExit(...), which calls SetRenderError; a call that
\* passes them reads mRenderCallbacksTouched and, if it is set, enters Update().
DoRender(inFrames, inBusNumber, data) ==
    /\ rpc = "idle"
    /\ LET check == RenderCheck(inFrames, inBusNumber, data)
           call == [inFrames |-> inFrames, inBusNumber |-> inBusNumber, ioData |-> data,
                    touched |-> mRenderCallbacksTouched, passed |-> check.error = NoErr,
                    error |-> check.error, thrown |-> check.thrown]
       IN  /\ ioData' = check.data
           /\ IF check.error # NoErr
              THEN /\ renderCall' = call @@ [status |-> "returned"]
                   /\ renderLog' = << LogEntry("SetRenderError", check.error, FALSE) >>
                   /\ lastRender' = IF check.thrown THEN "exception" ELSE "validation"
                   /\ UNCHANGED << rpc, inFramesToProcess, listVars >>
              ELSE /\ renderCall' = call @@ [status |-> "rendering"]
                   /\ lastRender' = "none"
                   /\ inFramesToProcess' = inFrames
                   /\ IF mRenderCallbacksTouched
                      THEN /\ UpdateEnter
                           /\ rpc' = "update"
                           /\ renderLog' = << LogEntry("Update", NoObj, FALSE) >>
                      ELSE /\ rpc' = "preRender"
                           /\ renderLog' = << >>
                           /\ UNCHANGED listVars
    /\ slices' = << >>
    /\ UNCHANGED << mParamEventList, mParameters, mInitialized, canSchedule, spc,
                    framesRemaining, currentStartFrame, result, lastScheduled, bufferVars,
                    elementVars, stackVars, mRenderCallbacksTouched,
                    usesFixedBlockSize, outputFormat, unitVars >>

\* Update() has returned: the render callbacks of the active list are called with
\* kAudioUnitRenderAction_PreRender, in list order.
PreRenderNotify ==
    /\ rpc = "update"
    /\ cpc = "idle"
    /\ renderLog' = renderLog \o
           [ i \in 1..Len(ActiveItems) |-> LogEntry("PreRender", ActiveItems[i], FALSE) ]
    /\ rpc' = "preRender"
    /\ UNCHANGED << mParamEventList, mParameters, mInitialized, canSchedule, spc,
                    inFramesToProcess, framesRemaining, currentStartFrame, result,
                    slices, lastRender, lastScheduled, listVars, bufferVars, elementVars, stackVars,
                    mRenderCallbacksTouched, usesFixedBlockSize, outputFormat, ioData,
                    renderCall, unitVars >>

\* The pre-render notifications are done and DoRender calls DoRenderBus, whose
\* rendering runs ProcessForScheduledParams on mParamEventList.
DoRenderBus ==
    /\ rpc = "preRender"
    /\ rpc' = "renderBus"
    /\ renderLog' = Append(renderLog, LogEntry("DoRenderBus", NoObj, FALSE))
    /\ UNCHANGED << mParamEventList, mParameters, mInitialized, canSchedule, spc,
                    inFramesToProcess, framesRemaining, currentStartFrame, result,
                    slices, lastRender, lastScheduled, listVars, bufferVars, elementVars, stackVars,
                    mRenderCallbacksTouched, usesFixedBlockSize, outputFormat, ioData,
                    renderCall, unitVars >>

\* The rendering throws, before or between slices; DoRender's catch block returns
\* errorExit(err), which calls SetRenderError.  The locals of the calls that are
\* left are gone.
RenderThrows ==
    /\ rpc = "renderBus"
    /\ spc \in {"idle", "loop"}
    /\ rpc' = "idle"
    /\ spc' = "idle"
    /\ lastRender' = "exception"
    /\ inFramesToProcess' = 0
    /\ framesRemaining' = 0
    /\ currentStartFrame' = 0
    /\ result' = NoErr
    /\ renderLog' = Append(renderLog, LogEntry("SetRenderError", "thrown", FALSE))
    /\ renderCall' = [renderCall EXCEPT !.status = "returned", !.error = "thrown",
                                        !.thrown = TRUE]
    /\ UNCHANGED << mParamEventList, mParameters, mInitialized, canSchedule, slices,
                    lastScheduled, listVars, bufferVars, elementVars, stackVars,
                    mRenderCallbacksTouched, usesFixedBlockSize, outputFormat, ioData,
                    unitVars >>

\* No error flag on any post-render call: the mutant of PostRenderError.
PostRenderErrorNever(theError) == FALSE

\* if (theError != noErr) flags |= kAudioUnitRenderAction_PostRenderError;
PostRenderError(theError) == theError # NoErr

\* DoRenderBus has returned ProcessForScheduledParams' result: SetRenderError; if
\* mRenderCallbacksTouched is set, the render callbacks of the active list are
\* called with kAudioUnitRenderAction_PostRender, in list order; and
\* mParamEventList.clear().
DoRenderReturn ==
    /\ rpc = "renderBus"
    /\ spc = "returned"
    /\ renderLog' = renderLog \o << LogEntry("SetRenderError", result, FALSE) >> \o
           (IF mRenderCallbacksTouched
            THEN [ i \in 1..Len(ActiveItems) |->
                     LogEntry("PostRender", ActiveItems[i], PostRenderError(result)) ]
            ELSE << >>)
    /\ renderCall' = [renderCall EXCEPT !.status = "returned", !.error = result]
    /\ mParamEventList' = << >>
    /\ rpc' = "idle"
    /\ spc' = "idle"
    /\ lastRender' = IF result = NoErr THEN "success" ELSE "renderError"
    /\ inFramesToProcess' = 0
    /\ framesRemaining' = 0
    /\ currentStartFrame' = 0
    /\ result' = NoErr
    /\ UNCHANGED << mParameters, mInitialized, canSchedule, slices, lastScheduled, listVars,
                    bufferVars, elementVars, stackVars, mRenderCallbacksTouched,
                    usesFixedBlockSize, outputFormat, ioData, unitVars >>

\* A new audio unit, which can schedule parameters or cannot.
InitRender ==
    /\ InitList
    /\ RenderQuiet
    /\ BufferQuiet
    /\ ElementQuiet
    /\ StackQuiet
    /\ NotifyQuiet
    /\ mInitialized = FALSE
    /\ canSchedule \in BOOLEAN
    /\ UnitQuiet

NextRender ==
    \/ \E hook \in InitializeResults : DoInitialize(hook)
    \/ DoCleanup
    \/ \E pe \in ScheduledEvents : ScheduleParameter(pe)
    \/ \E c \in RenderCalls : DoRender(c.inFrames, c.inBusNumber, c.ioData)
    \/ DoRenderBus
    \/ RenderThrows
    \/ ProcessForScheduledParams
    \/ \E status \in {NoErr, SliceError} : ProcessSlice(status)
    \/ DoRenderReturn

SpecRender == InitRender /\ [][NextRender]_vars

\* The stream formats the two elements are created with: interleaved stereo of 2
\* bytes a frame, and non-interleaved stereo whose frames are half the UInt32
\* range wide.
FormatsAtInit == { Format(TRUE, 2, 2), Format(FALSE, 2, SizeModulus \div 2) }

\* The values SetMaxFramesPerSlice is called with.
MaxFramesTried == {1, 2, MaxFrames}

\* A newly constructed audio unit whose two elements have any of the formats.
InitUnit ==
    /\ InitList
    /\ RenderQuiet
    /\ BufferQuiet
    /\ ElementQuiet
    /\ StackQuiet
    /\ mRenderCallbacksTouched = FALSE
    /\ usesFixedBlockSize = FALSE
    /\ outputFormat \in FormatsAtInit
    /\ ioData = EmptyABL
    /\ renderCall = NoRenderCall
    /\ renderLog = << >>
    /\ mInitialized = FALSE
    /\ canSchedule = FALSE
    /\ mMaxFramesPerSlice = MaxFrames
    /\ inputFormat \in FormatsAtInit
    /\ mHasBegunInitializing = FALSE
    /\ mBuffersAllocated = FALSE
    /\ mIOBuffer = [e \in {"Output0", "Input0"} |-> NoIOBuffer]
    /\ initCall = NoInitCall
    /\ initThrew = FALSE

\* DoInitialize, DoCleanup and SetMaxFramesPerSlice in any order, with whole
\* DoRender calls in between.
NextUnit ==
    \/ \E hook \in InitializeResults : DoInitialize(hook)
    \/ DoCleanup
    \/ \E n \in MaxFramesTried : SetMaxFramesPerSlice(n)
    \/ \E c \in RenderCalls : DoRender(c.inFrames, c.inBusNumber, c.ioData)
    \/ DoRenderBus
    \/ RenderThrows
    \/ ProcessForScheduledParams
    \/ \E status \in {NoErr, SliceError} : ProcessSlice(status)
    \/ DoRenderReturn

SpecUnit == InitUnit /\ [][NextUnit]_vars

\* ----------------------------------------------------- claims about DoRender

\* C9, as stated: when a DoRender call made while parameter events were pending
\* has returned, whatever its outcome, mParamEventList is empty.
C9_AsStated == lastRender # "none" => mParamEventList = << >>

\* C9, for the calls that got as far as rendering: when DoRender has returned
\* after DoRenderBus returned, with noErr or with an error, mParamEventList is
\* empty.
C9_ClearedAfterRendering ==
    lastRender \in {"success", "renderError"} => mParamEventList = << >>

\* A DoRender call that sliced its block at a scheduled event has returned the
\* error of the second slice.
C9_Witness ==
    /\ lastRender = "renderError"
    /\ Len(slices) = 2
    /\ mParamEventList = << >>

\* ------------------------------------------------ BufferAllocator::Allocate

\* The arguments BufferAllocator::Allocate is tried on: few and many buffers, around
\* the header limit; sizes around the alignment, and the largest sizes.
NumberBuffersTried ==
    (0..3) \cup { kMaxBufferListSize \div SizeofAudioBuffer,
                  (kMaxBufferListSize \div SizeofAudioBuffer) + 1 }

MaxBytesTried ==
    {0, 1, kAlignment - 1, kAlignment, kAlignment + 1, 2 * kAlignment}
        \cup { SizeModulus \div 2, MaxSize - kAlignment - 1, MaxSize - kAlignment,
               MaxSize - kAlignment + 1, MaxSize - 1, MaxSize }

\* BufferAllocator::Allocate is about to be called with some arguments.
InitAllocator ==
    /\ InitList
    /\ RenderQuiet
    /\ mInitialized = FALSE
    /\ canSchedule = FALSE
    /\ ElementQuiet
    /\ StackQuiet
    /\ NotifyQuiet
    /\ mPtrState = "Invalid"
    /\ mBuffers = NoBuffers
    /\ mAllocatedStreams = 0
    /\ mAllocatedFrames = 0
    /\ memory = ZeroMemory
    /\ destabl = EmptyABL
    /\ bufferCalls = 0
    /\ roundTrip = "none"
    /\ sinceAllocate = NoAllocation
    /\ released = << >>
    /\ \E n \in NumberBuffersTried, b \in MaxBytesTried :
          bufferCall = [op |-> "arguments", status |-> "none",
                        numberBuffers |-> n, maxBytesPerBuffer |-> b]
    /\ UnitQuiet

\* BufferAllocator::Allocate(numberBuffers, maxBytesPerBuffer, 0).
AllocatorAllocate ==
    /\ bufferCall.op = "arguments"
    /\ LET got == BufferAllocatorAllocate(bufferCall.numberBuffers,
                                          bufferCall.maxBytesPerBuffer)
       IN  /\ bufferCall' = [bufferCall EXCEPT !.op = "BufferAllocator::Allocate",
                                               !.status = got.status]
           /\ mBuffers' = IF got.status = "ok"
                          THEN [allocated |-> TRUE,
                                mMaximumNumberBuffers |-> got.mMaximumNumberBuffers,
                                mMaximumBytesPerBuffer |-> got.mMaximumBytesPerBuffer,
                                mBufferDataSize |-> got.mBufferDataSize,
                                mAudioBufferList |->
                                    [mNumberBuffers |-> bufferCall.numberBuffers,
                                     mBuffers |-> << >>]]
                          ELSE NoBuffers
    /\ UNCHANGED << mPtrState, mAllocatedStreams, mAllocatedFrames, memory, destabl,
                    bufferCalls, roundTrip, sinceAllocate, released,
                    listVars, renderVars, elementVars, stackVars, notifyVars, unitVars >>

NextAllocator == AllocatorAllocate

SpecAllocator == InitAllocator /\ [][NextAllocator]_vars

\* ---------------------------------- claims about BufferAllocator::Allocate

\* x rounded up to the next multiple of kAlignment, as a number.
RoundedUp(x) == ((x + kAlignment - 1) \div kAlignment) * kAlignment

\* What the claim requires of the call that was made: out_of_range above the header
\* limit; otherwise bad_alloc when the product of the number of buffers and the
\* rounded size is no UInt32; otherwise a region of exactly that product, the
\* per-buffer maximum being the rounded size, which is at least the size asked for.
AllocatedAsClaimed ==
    LET n == bufferCall.numberBuffers
        b == bufferCall.maxBytesPerBuffer
    IN  IF n > kMaxBufferListSize \div SizeofAudioBuffer
        THEN bufferCall.status = "out_of_range"
        ELSE IF n * RoundedUp(b) > MaxSize
        THEN bufferCall.status = "bad_alloc"
        ELSE /\ bufferCall.status = "ok"
             /\ mBuffers.mBufferDataSize = n * mBuffers.mMaximumBytesPerBuffer
             /\ mBuffers.mMaximumBytesPerBuffer = RoundedUp(b)
             /\ mBuffers.mMaximumBytesPerBuffer >= b

\* C20, as stated: BufferAllocator::Allocate fails with out_of_range above the
\* header limit, with bad_alloc whenever numberBuffers x the rounded
\* maxBytesPerBuffer does not fit in a UInt32, and otherwise returns a region of
\* exactly that size whose rounded maxBytesPerBuffer is >= the requested value.
C20_AsStated == bufferCall.op = "BufferAllocator::Allocate" => AllocatedAsClaimed

\* C20, for sizes whose rounding up to a multiple of 16 is itself a UInt32: the
\* same.
C20_AllocateChecked ==
    (/\ bufferCall.op = "BufferAllocator::Allocate"
     /\ RoundedUp(bufferCall.maxBytesPerBuffer) <= MaxSize) => AllocatedAsClaimed

\* Three buffers of 17 bytes were asked for: a region of 3 x 32 bytes.
C20_Witness ==
    /\ bufferCall.op = "BufferAllocator::Allocate"
    /\ bufferCall.numberBuffers = 3
    /\ bufferCall.maxBytesPerBuffer = kAlignment + 1
    /\ bufferCall.status = "ok"
    /\ mBuffers.mBufferDataSize = 3 * 2 * kAlignment

\* ------------------------------------------------------------ AUBufferList

\* The formats tried: mono, interleaved stereo, non-interleaved stereo, and two
\* whose frames are half the UInt32 range wide.
FormatsTried ==
    { Format(TRUE, 2, 2), Format(FALSE, 2, 1),
      Format(TRUE, 1, SizeModulus \div 2), Format(FALSE, 2, SizeModulus \div 2) }

\* The numbers of frames a buffer list is allocated or prepared for.
FramesTried == 0..2

\* channelsPerStream of PrepareBufferOrError and PrepareNullBufferOrError.
ChannelsPerStream(format) ==
    IF IsInterleaved(format) THEN format.mChannelsPerFrame ELSE 1

\* Memory with every byte of a region zero (freed or fresh).
WithoutRegion(mem, region) ==
    [a \in { x \in DOMAIN mem : x[1] # region } |-> mem[a]]

\* The addresses of the n bytes at ptr that are not zero.
NonZeroAt(mem, ptr, n) ==
    { a \in DOMAIN mem :
        a[1] = ptr.region /\ a[2] >= ptr.offset /\ a[2] < ptr.offset + n }

\* The first n bytes memmove copies, which is all of them.
MemmoveCount(n) == n

\* memmove(dst, src, n).
Memmove(mem, dst, src, n) ==
    LET count == MemmoveCount(n)
        from == NonZeroAt(mem, src, count)
        kept == DOMAIN mem \ NonZeroAt(mem, dst, count)
        moved == { << dst.region, a[2] - src.offset + dst.offset >> : a \in from }
    IN  [a \in kept \cup moved |->
            IF a \in moved
            THEN mem[<< src.region, a[2] - dst.offset + src.offset >>]
            ELSE mem[a]]

\* The bytes an AudioBuffer describes: how many, whether there is data, and the
\* bytes that are not zero by their position; a null mData describes none.
Payload(mem, buf) ==
    IF buf.mData = NullPtr
    THEN [size |-> buf.mDataByteSize, data |-> FALSE, bytes |-> {}]
    ELSE [size |-> buf.mDataByteSize, data |-> TRUE,
          bytes |-> { << a[2] - buf.mData.offset, mem[a] >> :
                        a \in NonZeroAt(mem, buf.mData, buf.mDataByteSize) }]

\* Where the i-th buffer's data starts: ptr after i - 1 rounds of
\* ptr += mMaximumBytesPerBuffer, from mBufferData (null when nothing was
\* allocated).
PreparedData(ab, i) ==
    IF ab.mBufferDataSize = 0 THEN NullPtr
    ELSE MyMemory((i - 1) * ab.mMaximumBytesPerBuffer)

\* A capacity test that lets every size through: the mutant of InsufficientCapacity.
CapacityUnchecked(ab, bytesPerBuffer) == FALSE

\* A capacity test that also refuses a request for exactly the maximum: the
\* mutant of InsufficientCapacity.
CapacityExclusive(ab, bytesPerBuffer) == bytesPerBuffer >= ab.mMaximumBytesPerBuffer

\* AllocatedBuffer::PrepareOrError: the test for "insufficient capacity".
InsufficientCapacity(ab, bytesPerBuffer) == bytesPerBuffer > ab.mMaximumBytesPerBuffer

\* AllocatedBuffer::PrepareOrError: whether it returns the list, and the
\* AllocatedBuffer afterwards.
PrepareOrError(ab, channelsPerBuffer, bytesPerBuffer) ==
    LET nBufs == ab.mAudioBufferList.mNumberBuffers
        prepared == [ i \in 1..nBufs |->
                        AudioBuffer(channelsPerBuffer, bytesPerBuffer, PreparedData(ab, i)) ]
    IN  IF nBufs > ab.mMaximumNumberBuffers THEN [ok |-> FALSE, buffers |-> ab]
        ELSE IF InsufficientCapacity(ab, bytesPerBuffer) THEN [ok |-> FALSE, buffers |-> ab]
        ELSE [ok |-> nBufs * ab.mMaximumBytesPerBuffer <= ab.mBufferDataSize,
              buffers |-> [ab EXCEPT !.mAudioBufferList.mBuffers = prepared]]

\* A PrepareNullOrError that does what PrepareOrError does: the mutant of
\* PrepareNullOrError.
PrepareNullOrErrorWithData(ab, channelsPerBuffer, bytesPerBuffer) ==
    PrepareOrError(ab, channelsPerBuffer, bytesPerBuffer)

\* AllocatedBuffer::PrepareNullOrError, likewise.
PrepareNullOrError(ab, channelsPerBuffer, bytesPerBuffer) ==
    LET nBufs == ab.mAudioBufferList.mNumberBuffers
        prepared == [ i \in 1..nBufs |->
                        AudioBuffer(channelsPerBuffer, bytesPerBuffer, NullPtr) ]
    IN  IF nBufs > ab.mMaximumNumberBuffers THEN [ok |-> FALSE, buffers |-> ab]
        ELSE [ok |-> TRUE,
              buffers |-> [ab EXCEPT !.mAudioBufferList.mBuffers = prepared]]

\* A call can be made: no earlier call had undefined behaviour, and the
\* AUBufferList has not been destroyed.
Defined == bufferCall.status \notin {"undefined", "destroyed"}

\* A BufferAllocator::Deallocate that frees nothing: the mutant of Release.
ReleaseNothing(rel, ab) == rel

\* BufferAllocator::Deallocate(ab): the region is freed once more.
Release(rel, ab) == [rel EXCEPT ![ab.id] = @ + 1]

\* The number of calls that change an AUBufferList in its lifetime.
MaxBufferCalls == 3

\* A call that changes the AUBufferList is made and counted.
Changing ==
    /\ Defined
    /\ bufferCalls < MaxBufferCalls
    /\ bufferCalls' = bufferCalls + 1

\* A caller's AudioBufferList lives from MakeDestination through the reading calls
\* that follow; by the next call that changes the AUBufferList it is gone, and
\* its memory with it.
Discarded == WithoutRegion(memory, "destination")

\* AUBufferList::Allocate(format, nFrames).  An exception of
\* BufferAllocator::Allocate leaves the function after the old buffers were
\* deallocated and before the other members are assigned.
Allocate(format, nFrames) ==
    /\ Changing
    /\ LET nstreams == NumberChannelStreams(format)
           bytes == ToSize(nFrames * format.mBytesPerFrame)
           got == BufferAllocatorAllocate(nstreams, bytes)
           held == IF mBuffers.allocated THEN Release(released, mBuffers) ELSE released
       IN  /\ bufferCall' = [op |-> "Allocate", status |-> got.status,
                             format |-> format, nFrames |-> nFrames]
           /\ memory' = WithoutRegion(Discarded, "mine")
           /\ IF got.status = "ok"
              THEN /\ mBuffers' =
                         [allocated |-> TRUE,
                          id |-> Len(held) + 1,
                          mMaximumNumberBuffers |-> got.mMaximumNumberBuffers,
                          mMaximumBytesPerBuffer |-> got.mMaximumBytesPerBuffer,
                          mBufferDataSize |-> got.mBufferDataSize,
                          mAudioBufferList |->
                              [mNumberBuffers |-> nstreams,
                               mBuffers |-> [ i \in 1..nstreams |->
                                                AudioBuffer(0, 0, NullPtr) ]]]
                   /\ mAllocatedFrames' = nFrames
                   /\ mAllocatedStreams' = nstreams
                   /\ mPtrState' = "Invalid"
                   /\ released' = Append(held, 0)
                   /\ sinceAllocate' = [allocated |-> TRUE, format |-> format, set |-> -1]
              ELSE /\ mBuffers' = NoBuffers
                   /\ released' = held
                   /\ sinceAllocate' = NoAllocation
                   /\ UNCHANGED << mAllocatedFrames, mAllocatedStreams, mPtrState >>
    /\ roundTrip' = "none"
    /\ destabl' = EmptyABL
    /\ UNCHANGED << listVars, renderVars, elementVars, stackVars, notifyVars, unitVars >>

\* AUBufferList::Deallocate.
Deallocate ==
    /\ Changing
    /\ mBuffers' = NoBuffers
    /\ released' = IF mBuffers.allocated THEN Release(released, mBuffers) ELSE released
    /\ sinceAllocate' = NoAllocation
    /\ memory' = WithoutRegion(Discarded, "mine")
    /\ mAllocatedFrames' = 0
    /\ mAllocatedStreams' = 0
    /\ mPtrState' = "Invalid"
    /\ bufferCall' = [op |-> "Deallocate", status |-> "ok"]
    /\ roundTrip' = "none"
    /\ destabl' = EmptyABL
    /\ UNCHANGED << listVars, renderVars, elementVars, stackVars, notifyVars, unitVars >>

\* AUBufferList::~AUBufferList: Deallocate(), after which no call is made.
AUBufferListDestructor ==
    /\ Defined
    /\ mBuffers' = NoBuffers
    /\ released' = IF mBuffers.allocated THEN Release(released, mBuffers) ELSE released
    /\ sinceAllocate' = NoAllocation
    /\ memory' = WithoutRegion(Discarded, "mine")
    /\ mAllocatedFrames' = 0
    /\ mAllocatedStreams' = 0
    /\ mPtrState' = "Invalid"
    /\ bufferCall' = [op |-> "~AUBufferList", status |-> "destroyed"]
    /\ roundTrip' = "none"
    /\ destabl' = EmptyABL
    /\ UNCHANGED << bufferCalls, listVars, renderVars, elementVars, stackVars, notifyVars, unitVars >>

\* AUBufferList::InvalidateBufferList.
InvalidateBufferList ==
    /\ Changing
    /\ mPtrState' = "Invalid"
    /\ bufferCall' = [op |-> "InvalidateBufferList", status |-> "ok"]
    /\ roundTrip' = "none"
    /\ destabl' = EmptyABL
    /\ memory' = Discarded
    /\ UNCHANGED << mBuffers, mAllocatedStreams, mAllocatedFrames,
                    sinceAllocate, released,
                    listVars, renderVars, elementVars, stackVars, notifyVars, unitVars >>

\* The latest call was Allocate(format, F) with F >= nFrames; it returned, and
\* neither F x bytesPerFrame nor its rounding up to the alignment left UInt32.
AllocatedFor(format, nFrames) ==
    /\ bufferCall.op = "Allocate"
    /\ bufferCall.status = "ok"
    /\ bufferCall.format = format
    /\ bufferCall.nFrames >= nFrames
    /\ ((bufferCall.nFrames * format.mBytesPerFrame + kAlignment - 1) \div kAlignment)
            * kAlignment <= MaxSize

\* The request is for more than was allocated: more frames, more streams, or more
\* bytes per stream than the per-stream maximum of the allocated region.
ExceedsCapacity(format, nFrames) ==
    \/ nFrames > mAllocatedFrames
    \/ NumberChannelStreams(format) > mAllocatedStreams
    \/ nFrames * format.mBytesPerFrame >
           (IF mBuffers.allocated THEN mBuffers.mMaximumBytesPerBuffer ELSE 0)

\* AUBufferList::PrepareBufferOrError(format, nFrames): how it ends.  When the
\* two tests pass and mBuffers is null, mBuffers->PrepareOrError is undefined.
PrepareBufferStatus(format, nFrames) ==
    IF nFrames > mAllocatedFrames THEN "TooManyFramesToProcess"
    ELSE IF NumberChannelStreams(format) > mAllocatedStreams THEN "FormatNotSupported"
    ELSE IF ~mBuffers.allocated THEN "undefined"
    ELSE IF PrepareOrError(mBuffers, ChannelsPerStream(format),
                           ToSize(nFrames * format.mBytesPerFrame)).ok THEN "ok"
    ELSE "error"

\* AUBufferList::PrepareBufferOrError(format, nFrames).  The call is recorded
\* with what was asked for (the format, its streams, and bytes per stream as a
\* product of integers), whether that was within what Allocate had just obtained
\* or beyond the capacity, and whether the object was changed.
PrepareBufferOrError(format, nFrames) ==
    /\ Changing
    /\ LET status == PrepareBufferStatus(format, nFrames)
           call == [op |-> "PrepareBuffer",
                    format |-> format,
                    streams |-> NumberChannelStreams(format),
                    bytes |-> nFrames * format.mBytesPerFrame,
                    afterAllocate |-> AllocatedFor(format, nFrames),
                    exceeds |-> ExceedsCapacity(format, nFrames),
                    status |-> status]
           bytes == ToSize(nFrames * format.mBytesPerFrame)
           maybeABL == PrepareOrError(mBuffers, ChannelsPerStream(format), bytes)
       IN  IF status \in {"ok", "error"}
           THEN /\ bufferCall' =
                       call @@ [changed |-> \/ maybeABL.buffers # mBuffers
                                            \/ maybeABL.ok /\ mPtrState # "ToMyMemory"]
                /\ mBuffers' = maybeABL.buffers
                /\ mPtrState' = IF maybeABL.ok THEN "ToMyMemory" ELSE mPtrState
           ELSE /\ bufferCall' = call @@ [changed |-> FALSE]
                /\ UNCHANGED << mBuffers, mPtrState >>
    /\ roundTrip' = "none"
    /\ destabl' = EmptyABL
    /\ memory' = Discarded
    /\ UNCHANGED << mAllocatedStreams, mAllocatedFrames,
                    sinceAllocate, released,
                    listVars, renderVars, elementVars, stackVars, notifyVars, unitVars >>

\* AUBufferList::PrepareNullBufferOrError(format, nFrames).  The call is recorded
\* with how a PrepareBufferOrError of the same arguments would have ended, and
\* the entries it would have left.
PrepareNullBufferOrError(format, nFrames) ==
    /\ Changing
    /\ LET bytes == ToSize(nFrames * format.mBytesPerFrame)
           asPrepare == PrepareBufferStatus(format, nFrames)
           call == [op |-> "PrepareNullBuffer", format |-> format, nFrames |-> nFrames,
                    prepare |-> asPrepare,
                    prepared |->
                        IF asPrepare = "ok"
                        THEN PrepareOrError(mBuffers, ChannelsPerStream(format), bytes)
                                 .buffers.mAudioBufferList.mBuffers
                        ELSE << >>]
           maybeABL == PrepareNullOrError(mBuffers, ChannelsPerStream(format), bytes)
       IN  IF NumberChannelStreams(format) > mAllocatedStreams
           THEN /\ bufferCall' = call @@ [status |-> "FormatNotSupported"]
                /\ UNCHANGED << mBuffers, mPtrState >>
           ELSE IF ~mBuffers.allocated
           THEN /\ bufferCall' = call @@ [status |-> "undefined"]
                /\ UNCHANGED << mBuffers, mPtrState >>
           ELSE /\ bufferCall' = call @@ [status |-> IF maybeABL.ok THEN "ok" ELSE "error"]
                /\ mBuffers' = maybeABL.buffers
                /\ mPtrState' = IF maybeABL.ok THEN "ToExternalMemory" ELSE mPtrState
    /\ roundTrip' = "none"
    /\ destabl' = EmptyABL
    /\ memory' = Discarded
    /\ UNCHANGED << mAllocatedStreams, mAllocatedFrames,
                    sinceAllocate, released,
                    listVars, renderVars, elementVars, stackVars, notifyVars, unitVars >>

\* The AudioBufferLists a host hands to SetBufferList: up to two buffers of 2
\* bytes each in the host's memory.
ExternalLists ==
    { [mNumberBuffers |-> n,
       mBuffers |-> [ i \in 1..n |-> AudioBuffer(1, 2, ExternalMemory(i)) ]] :
        n \in 0..2 }

\* The AudioBuffers a host hands to SetBuffer.
ExternalBuffers == { AudioBuffer(1, 2, ExternalMemory(1)) }

\* A copy that leaves the header, and with it the buffer count, as it was: the
\* mutant of MemcpyList.
MemcpyEntries(myabl, abl) ==
    [mNumberBuffers |-> myabl.mNumberBuffers,
     mBuffers |-> [ i \in 1..Len(myabl.mBuffers) |->
                      IF i <= abl.mNumberBuffers THEN abl.mBuffers[i]
                      ELSE myabl.mBuffers[i] ]]

\* memcpy(&myabl, &abl, ...) up to &abl.mBuffers[abl.mNumberBuffers]: the header
\* and every entry of abl.
MemcpyList(myabl, abl) == abl

\* A size test that lets every list through: the mutant of TooManyBuffers.
TooManyBuffersNever(abl, allocatedStreams) == FALSE

\* AUBufferList::SetBufferListOrError: mAllocatedStreams < abl.mNumberBuffers.
TooManyBuffers(abl, allocatedStreams) == allocatedStreams < abl.mNumberBuffers

\* AUBufferList::SetBufferListOrError(abl): the state is set before mBuffers is
\* dereferenced, which is undefined when it is null.
SetBufferListOrError(abl) ==
    /\ Changing
    /\ LET call == [op |-> "SetBufferList", abl |-> abl]
       IN  IF TooManyBuffers(abl, mAllocatedStreams)
           THEN /\ bufferCall' = call @@ [status |-> "error"]
                /\ UNCHANGED << mBuffers, mPtrState, sinceAllocate >>
           ELSE /\ mPtrState' = "ToExternalMemory"
                /\ IF ~mBuffers.allocated
                   THEN /\ bufferCall' = call @@ [status |-> "undefined"]
                        /\ UNCHANGED << mBuffers, sinceAllocate >>
                   ELSE /\ bufferCall' = call @@ [status |-> "ok"]
                        /\ mBuffers' =
                               [mBuffers EXCEPT !.mAudioBufferList =
                                                    MemcpyList(mBuffers.mAudioBufferList, abl)]
                        /\ sinceAllocate' =
                               [sinceAllocate EXCEPT !.set = abl.mNumberBuffers]
    /\ roundTrip' = "none"
    /\ destabl' = EmptyABL
    /\ memory' = Discarded
    /\ UNCHANGED << mAllocatedStreams, mAllocatedFrames, released,
                    listVars, renderVars, elementVars, stackVars, notifyVars, unitVars >>

\* A SetBuffer that takes every index: the mutant of IndexOutOfRange.
IndexOutOfRangeNever(index, myabl) == FALSE

\* index >= myabl.mNumberBuffers
IndexOutOfRange(index, myabl) == index >= myabl.mNumberBuffers

\* AUBufferList::SetBufferOrError(index, ab), index counted from 0.
SetBufferOrError(index, ab) ==
    /\ Changing
    /\ LET call == [op |-> "SetBuffer", index |-> index]
       IN  IF mPtrState = "Invalid"
           THEN /\ bufferCall' = call @@ [status |-> "error"]
                /\ UNCHANGED << mBuffers, mPtrState >>
           ELSE IF ~mBuffers.allocated
           THEN /\ bufferCall' = call @@ [status |-> "undefined"]
                /\ UNCHANGED << mBuffers, mPtrState >>
           ELSE IF IndexOutOfRange(index, mBuffers.mAudioBufferList)
           THEN /\ bufferCall' = call @@ [status |-> "error"]
                /\ UNCHANGED << mBuffers, mPtrState >>
           ELSE /\ bufferCall' = call @@ [status |-> "ok"]
                /\ mPtrState' = "ToExternalMemory"
                /\ mBuffers' =
                       [mBuffers EXCEPT !.mAudioBufferList.mBuffers[index + 1] = ab]
    /\ roundTrip' = "none"
    /\ destabl' = EmptyABL
    /\ memory' = Discarded
    /\ UNCHANGED << mAllocatedStreams, mAllocatedFrames,
                    sinceAllocate, released,
                    listVars, renderVars, elementVars, stackVars, notifyVars, unitVars >>

\* A reading call that finds every state bound: the mutant of Unbound.
UnboundNever == FALSE

\* The test the reading calls start with: mPtrState == EPtrState::Invalid.
Unbound == mPtrState = "Invalid"

\* AUBufferList::GetBufferListOrError.  A reading call is recorded with whether
\* the bound state was Invalid when it was made and whether it wrote to the
\* caller's list or memory.
GetBufferListOrError ==
    /\ Defined
    /\ UNCHANGED bufferCalls
    /\ bufferCall' =
           [op |-> "GetBufferList", wasInvalid |-> mPtrState = "Invalid",
            status |-> IF Unbound THEN "error"
                       ELSE IF ~mBuffers.allocated THEN "undefined"
                       ELSE "ok",
            wrote |-> FALSE]
    /\ roundTrip' = "none"
    /\ UNCHANGED << mPtrState, mBuffers, mAllocatedStreams, mAllocatedFrames, memory,
                    destabl, sinceAllocate, released,
                    listVars, renderVars, elementVars, stackVars, notifyVars, unitVars >>

\* The numbers of buffers a caller's list has.
DestinationsTried == 0..3

\* A caller builds an AudioBufferList of n buffers of `size` bytes each, over
\* zeroed memory of its own or (one buffer of 2 bytes) with null data.
MakeDestination(n, size, hasData) ==
    /\ Defined
    /\ UNCHANGED bufferCalls
    /\ ~hasData => n = 1 /\ size = 2
    /\ destabl' = [mNumberBuffers |-> n,
                   mBuffers |-> [ i \in 1..n |->
                       AudioBuffer(1, size, IF hasData THEN DestMemory(i) ELSE NullPtr) ]]
    /\ memory' = WithoutRegion(memory, "destination")
    /\ bufferCall' = [op |-> "MakeDestination", status |-> "ok"]
    /\ roundTrip' = IF hasData THEN "zeroed" ELSE "none"
    /\ UNCHANGED << mPtrState, mBuffers, mAllocatedStreams, mAllocatedFrames,
                    sinceAllocate, released,
                    listVars, renderVars, elementVars, stackVars, notifyVars, unitVars >>

\* The list has as many AudioBuffers as its mNumberBuffers says.
WellFormed(abl) == abl.mNumberBuffers = Len(abl.mBuffers)

\* The two lists have the same number of buffers and the same byte sizes.
SameShape(a, b) ==
    /\ a.mNumberBuffers = b.mNumberBuffers
    /\ \A i \in 1..Len(a.mBuffers) :
          i <= Len(b.mBuffers) /\ a.mBuffers[i].mDataByteSize = b.mBuffers[i].mDataByteSize

\* An AudioBuffer copied without its data pointer: the mutant of CopiedBuffer.
CopiedBufferNoData(buf) == [buf EXCEPT !.mData = NullPtr]

\* An AudioBuffer as memcpy copies it.
CopiedBuffer(buf) == buf

\* AUBufferList::CopyBufferListToOrError(destabl): memcpy of the header and of as
\* many AudioBuffers as destabl had.  Callers pass a list that holds its
\* mNumberBuffers AudioBuffers and, to a bound list, one of at most as many
\* buffers as the bound list has.
CopyBufferListToOrError ==
    /\ Defined
    /\ UNCHANGED bufferCalls
    /\ WellFormed(destabl)
    /\ mPtrState # "Invalid" /\ mBuffers.allocated
          => destabl.mNumberBuffers <= mBuffers.mAudioBufferList.mNumberBuffers
    /\ LET call == [op |-> "CopyBufferListTo", wasInvalid |-> mPtrState = "Invalid"]
           src == mBuffers.mAudioBufferList
           n == destabl.mNumberBuffers
       IN  IF Unbound
           THEN /\ bufferCall' = call @@ [status |-> "error", wrote |-> FALSE]
                /\ UNCHANGED destabl
                /\ roundTrip' = "none"
           ELSE IF ~mBuffers.allocated
           THEN /\ bufferCall' = call @@ [status |-> "undefined", wrote |-> FALSE]
                /\ UNCHANGED destabl
                /\ roundTrip' = "none"
           ELSE /\ bufferCall' = call @@ [status |-> "ok", wrote |-> TRUE]
                /\ destabl' = [mNumberBuffers |-> src.mNumberBuffers,
                               mBuffers |-> [ i \in 1..n |-> CopiedBuffer(src.mBuffers[i]) ]]
                /\ roundTrip' = IF roundTrip = "zeroed" /\ SameShape(destabl, src)
                                THEN "listCopied" ELSE "none"
    /\ UNCHANGED << mPtrState, mBuffers, mAllocatedStreams, mAllocatedFrames, memory,
                    sinceAllocate, released,
                    listVars, renderVars, elementVars, stackVars, notifyVars, unitVars >>

\* The extra destination buffers all taking the first source buffer: the mutant of
\* SourceIndex.
SourceIndexFirst(i, numberBuffers) == IF i > numberBuffers THEN 1 ELSE i

\* The source buffer that goes to destination buffer i (counted from 1), the last
\* one once the source has run out.
SourceIndex(i, numberBuffers) == IF i > numberBuffers THEN numberBuffers ELSE i

\* The loop of CopyBufferContentsToOrError from destination buffer i on: whether it
\* runs to the end, and the memory and the destination list when it is left.  A
\* memmove of 0 bytes moves nothing.
RECURSIVE CopyContents(_, _, _, _)
CopyContents(i, src, mem, dest) ==
    IF i > dest.mNumberBuffers THEN [ok |-> TRUE, memory |-> mem, destabl |-> dest]
    ELSE LET srcbuf == src.mBuffers[SourceIndex(i, src.mNumberBuffers)]
             destbuf == dest.mBuffers[i]
         IN  IF /\ srcbuf.mDataByteSize > 0
                /\ (srcbuf.mData = NullPtr \/ destbuf.mData = NullPtr)
             THEN [ok |-> FALSE, memory |-> mem, destabl |-> dest]
             ELSE CopyContents(
                      i + 1, src,
                      IF destbuf.mData # srcbuf.mData /\ srcbuf.mDataByteSize > 0
                      THEN Memmove(mem, destbuf.mData, srcbuf.mData, srcbuf.mDataByteSize)
                      ELSE mem,
                      [dest EXCEPT !.mBuffers[i].mDataByteSize = srcbuf.mDataByteSize])

\* AUBufferList::CopyBufferContentsToOrError(destabl).  With a source list of no
\* buffers --srcbuf leaves the list, which is undefined.  The call is also
\* recorded with whether the bytes of a source buffer were changed.
CopyBufferContentsToOrError ==
    /\ Defined
    /\ UNCHANGED bufferCalls
    /\ WellFormed(destabl)
    /\ LET call == [op |-> "CopyBufferContentsTo", wasInvalid |-> mPtrState = "Invalid"]
           src == mBuffers.mAudioBufferList
           done == CopyContents(1, src, memory, destabl)
       IN  IF Unbound
           THEN /\ bufferCall' = call @@ [status |-> "error", wrote |-> FALSE,
                                          sourceChanged |-> FALSE]
                /\ UNCHANGED << destabl, memory >>
                /\ roundTrip' = "none"
           ELSE IF \/ ~mBuffers.allocated
                   \/ (destabl.mNumberBuffers > 0 /\ src.mNumberBuffers = 0)
           THEN /\ bufferCall' = call @@ [status |-> "undefined", wrote |-> FALSE,
                                          sourceChanged |-> FALSE]
                /\ UNCHANGED << destabl, memory >>
                /\ roundTrip' = "none"
           ELSE /\ bufferCall' = call @@
                       [status |-> IF done.ok THEN "ok" ELSE "error",
                        wrote |-> done.destabl # destabl \/ done.memory # memory,
                        sourceChanged |->
                            \E i \in 1..src.mNumberBuffers :
                                Payload(done.memory, src.mBuffers[i])
                                    # Payload(memory, src.mBuffers[i])]
                /\ destabl' = done.destabl
                /\ memory' = done.memory
                /\ roundTrip' = IF roundTrip = "listCopied" THEN "done" ELSE "none"
    /\ UNCHANGED << mPtrState, mBuffers, mAllocatedStreams, mAllocatedFrames,
                    sinceAllocate, released,
                    listVars, renderVars, elementVars, stackVars, notifyVars, unitVars >>

\* The bytes of the i-th buffer of the bound list, when it has data of at most
\* one alignment unit.
SampleBytes(i) ==
    LET buf == mBuffers.mAudioBufferList.mBuffers[i]
    IN  IF buf.mData = NullPtr \/ buf.mDataByteSize > kAlignment THEN {}
        ELSE { << buf.mData.region, buf.mData.offset + k, i >> :
                 k \in 0..(buf.mDataByteSize - 1) }

\* The render code writes samples: every byte of the i-th buffer of the bound list
\* becomes i, for each i.
WriteSamples ==
    /\ Defined
    /\ UNCHANGED bufferCalls
    /\ mPtrState # "Invalid"
    /\ mBuffers.allocated
    /\ LET written == UNION { SampleBytes(i) :
                                i \in 1..mBuffers.mAudioBufferList.mNumberBuffers }
           range == { << w[1], w[2] >> : w \in written }
       IN  /\ range # {}
           /\ memory' = [a \in DOMAIN memory \cup range |->
                            IF a \in range
                            THEN (CHOOSE w \in written : << w[1], w[2] >> = a)[3]
                            ELSE memory[a]]
    /\ bufferCall' = [op |-> "WriteSamples", status |-> "ok"]
    /\ roundTrip' = IF roundTrip = "done" THEN "none" ELSE roundTrip
    /\ UNCHANGED << mPtrState, mBuffers, mAllocatedStreams, mAllocatedFrames, destabl,
                    sinceAllocate, released,
                    listVars, renderVars, elementVars, stackVars, notifyVars, unitVars >>

\* A new AUBufferList.
InitBuffer ==
    /\ InitList
    /\ RenderQuiet
    /\ mInitialized = FALSE
    /\ canSchedule = FALSE
    /\ ElementQuiet
    /\ StackQuiet
    /\ NotifyQuiet
    /\ BufferQuiet
    /\ UnitQuiet

NextBuffer ==
    \/ \E format \in FormatsTried, nFrames \in FramesTried : Allocate(format, nFrames)
    \/ Deallocate
    \/ AUBufferListDestructor
    \/ InvalidateBufferList
    \/ \E format \in FormatsTried, nFrames \in FramesTried :
          PrepareBufferOrError(format, nFrames)
    \/ \E format \in FormatsTried, nFrames \in FramesTried :
          PrepareNullBufferOrError(format, nFrames)
    \/ \E abl \in ExternalLists : SetBufferListOrError(abl)
    \/ \E index \in 0..2, ab \in ExternalBuffers : SetBufferOrError(index, ab)
    \/ GetBufferListOrError
    \/ \E n \in DestinationsTried, size \in {0, 2}, hasData \in BOOLEAN :
          MakeDestination(n, size, hasData)
    \/ CopyBufferListToOrError
    \/ CopyBufferContentsToOrError
    \/ WriteSamples

SpecBuffer == InitBuffer /\ [][NextBuffer]_vars

\* ------------------------------------------------------------ AUElement parameters

\* The parameter ids callers use, and the counts UseIndexedParameters is called with.
ElemIDs == 0..1
CountsTried == {1, 2}

\* std::vector::resize(n): the first n elements, new ones value-initialised
\* (AtomicValue's mValue{}).
Resize(vec, n) == [i \in 1..n |-> IF i <= Len(vec) THEN vec[i] ELSE InitialValue]

\* A range test that also refuses the last id: the mutant of OutOfRange.
OutOfRangeInclusive(paramID, size) == paramID + 1 >= size

\* paramID >= mIndexedParameters.size().
OutOfRange(paramID, size) == paramID >= size

\* A test that refuses every creation on an initialized unit: the mutant of
\* CreationRefused.
CreationRefusedAlways(initialized, okWhenInitialized) == initialized

\* mAudioUnit.IsInitialized() && !okWhenInitialized.
CreationRefused(initialized, okWhenInitialized) == initialized /\ ~okWhenInitialized

\* A load that returns a value-initialised float: the mutant of AtomicLoad.
AtomicLoadStale(cell) == InitialValue

\* AtomicValue::load(std::memory_order_acquire).
AtomicLoad(cell) == cell

\* A flag that is flipped instead of set: the mutant of IndexedFlag.
IndexedFlagFlipped == ~mUseIndexedParameters

\* mUseIndexedParameters = true.
IndexedFlag == TRUE

\* AUElement::HasParameterID.
HasParameterID(paramID) ==
    IF mUseIndexedParameters THEN paramID < Len(mIndexedParameters)
    ELSE paramID \in DOMAIN mParameters

\* AUElement::GetParameter: the value, or the exception it throws.
GetParameter(paramID) ==
    IF mUseIndexedParameters
    THEN IF OutOfRange(paramID, Len(mIndexedParameters))
         THEN [status |-> "InvalidParameter", value |-> NoValue]
         ELSE [status |-> "ok", value |-> AtomicLoad(mIndexedParameters[paramID + 1])]
    ELSE IF paramID \notin DOMAIN mParameters
         THEN [status |-> "InvalidParameter", value |-> NoValue]
         ELSE [status |-> "ok", value |-> AtomicLoad(mParameters[paramID])]

\* AUElement::SetParameter: how it ends, and the two stores afterwards.
SetParameter(paramID, inValue, okWhenInitialized) ==
    LET same == [mParameters |-> mParameters, mIndexedParameters |-> mIndexedParameters]
    IN  IF mUseIndexedParameters
        THEN IF OutOfRange(paramID, Len(mIndexedParameters))
             THEN same @@ [status |-> "InvalidParameter"]
             ELSE [status |-> "ok", mParameters |-> mParameters,
                   mIndexedParameters |->
                       [mIndexedParameters EXCEPT ![paramID + 1] = inValue]]
        ELSE IF paramID \notin DOMAIN mParameters
             THEN IF CreationRefused(mInitialized, okWhenInitialized)
                  THEN same @@ [status |-> "ok"]
                  ELSE [status |-> "ok", mIndexedParameters |-> mIndexedParameters,
                        mParameters |-> (paramID :> inValue) @@ mParameters]
             ELSE [status |-> "ok", mIndexedParameters |-> mIndexedParameters,
                   mParameters |-> AUElementSetParameter(mParameters, paramID, inValue)]

\* No call is in progress on the element.
AllIdle == \A t \in ElemThreads : epc[t] = "idle"

\* What the render variables do while the element is exercised: nothing, except
\* that the stores and mInitialized belong to the element's unit.
ElementFrame ==
    UNCHANGED << mParamEventList, canSchedule, rpc, spc, inFramesToProcess,
                 framesRemaining, currentStartFrame, result, slices, lastRender,
                 lastScheduled,                 listVars, bufferVars, stackVars, notifyVars, unitVars >>

\* The value the latest SetParameter of an id left, or the value-initialised one.
LastWritten(paramID) ==
    IF paramID \in DOMAIN lastWrite THEN lastWrite[paramID] ELSE InitialValue

\* A SetParameter(paramID, ., okWhenInitialized) made now has a value to store:
\* the id is valid, or it can be created.
Storing(paramID, okWhenInitialized) ==
    IF mUseIndexedParameters THEN paramID < Len(mIndexedParameters)
    ELSE paramID \in DOMAIN mParameters \/ ~mInitialized \/ okWhenInitialized

\* AUElement::UseIndexedParameters(inNumberOfParameters), called while no other
\* call is in progress (it is a configuration call).  Parameters the vector no
\* longer or not yet holds have no latest write.
UseIndexedParameters(inNumberOfParameters) ==
    /\ AllIdle
    /\ mIndexedParameters' = Resize(mIndexedParameters, inNumberOfParameters)
    /\ mUseIndexedParameters' = IndexedFlag
    /\ eret' = [op |-> "UseIndexedParameters", count |-> inNumberOfParameters]
    /\ lastWrite' = [p \in { q \in DOMAIN lastWrite :
                                mUseIndexedParameters /\ q < inNumberOfParameters }
                         |-> lastWrite[p]]
    /\ declared' = IF declared = {} THEN {inNumberOfParameters} ELSE declared
    /\ lateDeclare' = (lateDeclare \/ mUseIndexedParameters \/ DOMAIN mParameters # {})
    /\ UNCHANGED << mParameters, mInitialized, epc, ecall >>
    /\ ElementFrame

\* The record of a SetParameter that returned: what was asked, the state it found,
\* how it ended and whether any other parameter's value changed.
SetReturned(paramID, inValue, okWhenInitialized, done) ==
    [op |-> "Set", id |-> paramID, value |-> inValue,
     okWhenInitialized |-> okWhenInitialized,
     initialized |-> mInitialized,
     indexed |-> mUseIndexedParameters,
     known |-> HasParameterID(paramID),
     status |-> done.status,
     othersChanged |->
         \/ \E i \in 1..Len(mIndexedParameters) :
               i # paramID + 1 /\ done.mIndexedParameters[i] # mIndexedParameters[i]
         \/ Len(done.mIndexedParameters) # Len(mIndexedParameters)
         \/ \E p \in DOMAIN mParameters :
               p # paramID /\ done.mParameters[p] # mParameters[p]
         \/ DOMAIN done.mParameters \ {paramID} # DOMAIN mParameters \ {paramID}]

\* The calls in progress after thread t's SetParameter(paramID, inValue) returned:
\* a GetParameter of the same id that is in progress may now return inValue.
AfterSet(t, paramID, inValue, stored) ==
    [u \in ElemThreads |->
        IF u = t THEN NoElemCall
        ELSE IF stored /\ ecall[u].op = "Get" /\ ecall[u].id = paramID
        THEN [ecall[u] EXCEPT !.allowed = @ \cup {inValue}]
        ELSE ecall[u]]

\* The whole of SetParameter(paramID, inValue, okWhenInitialized) by thread t.
SetParameterBody(t, paramID, inValue, okWhenInitialized) ==
    LET done == SetParameter(paramID, inValue, okWhenInitialized)
        stored == Storing(paramID, okWhenInitialized)
    IN  /\ mParameters' = done.mParameters
        /\ mIndexedParameters' = done.mIndexedParameters
        /\ eret' = SetReturned(paramID, inValue, okWhenInitialized, done)
        /\ lastWrite' = IF stored THEN (paramID :> inValue) @@ lastWrite ELSE lastWrite
        /\ ecall' = AfterSet(t, paramID, inValue, stored)
        /\ epc' = [epc EXCEPT ![t] = "idle"]
        /\ UNCHANGED << mUseIndexedParameters, mInitialized, declared, lateDeclare >>
        /\ ElementFrame

\* AUElement::SetParameter called where it may create a parameter (the unit is not
\* initialized, or okWhenInitialized is true): the caller knows that nothing else
\* is accessing the element, so the call runs while no other is in progress.
ConfigureParameter(t, paramID, inValue, okWhenInitialized) ==
    /\ AllIdle
    /\ ~mInitialized \/ okWhenInitialized
    /\ SetParameterBody(t, paramID, inValue, okWhenInitialized)

\* AUElement::SetParameter(paramID, inValue) on an initialized unit is called by
\* thread t.
SetParameterCall(t, paramID, inValue) ==
    /\ epc[t] = "idle"
    /\ mInitialized
    /\ epc' = [epc EXCEPT ![t] = "called"]
    /\ ecall' = [ecall EXCEPT ![t] = [op |-> "Set", id |-> paramID, value |-> inValue]]
    /\ UNCHANGED << mParameters, mInitialized, mUseIndexedParameters,
                    mIndexedParameters, eret, lastWrite, declared, lateDeclare >>
    /\ ElementFrame

\* It finds the parameter, stores the value and returns.
SetParameterReturn(t) ==
    /\ epc[t] = "called"
    /\ ecall[t].op = "Set"
    /\ SetParameterBody(t, ecall[t].id, ecall[t].value, FALSE)

\* AUElement::GetParameter(paramID) is called by thread t; it may return the value
\* the latest SetParameter of the id left.
GetParameterCall(t, paramID) ==
    /\ epc[t] = "idle"
    /\ epc' = [epc EXCEPT ![t] = "called"]
    /\ ecall' = [ecall EXCEPT ![t] = [op |-> "Get", id |-> paramID,
                                       allowed |-> {LastWritten(paramID)}]]
    /\ UNCHANGED << mParameters, mInitialized, mUseIndexedParameters,
                    mIndexedParameters, eret, lastWrite, declared, lateDeclare >>
    /\ ElementFrame

\* It finds the parameter, loads the value and returns.
GetParameterReturn(t) ==
    /\ epc[t] = "called"
    /\ ecall[t].op = "Get"
    /\ LET got == GetParameter(ecall[t].id)
       IN  eret' = [op |-> "Get", id |-> ecall[t].id,
                    indexed |-> mUseIndexedParameters,
                    known |-> HasParameterID(ecall[t].id),
                    status |-> got.status, value |-> got.value,
                    allowed |-> ecall[t].allowed]
    /\ epc' = [epc EXCEPT ![t] = "idle"]
    /\ ecall' = [ecall EXCEPT ![t] = NoElemCall]
    /\ UNCHANGED << mParameters, mInitialized, mUseIndexedParameters,
                    mIndexedParameters, lastWrite, declared, lateDeclare >>
    /\ ElementFrame

\* The unit is initialized, or cleaned up, while no call is in progress.
ElementInitialize == AllIdle /\ \E hook \in InitializeResults : DoInitialize(hook)
ElementCleanup == AllIdle /\ DoCleanup

\* A new AUElement of a unit that is not initialized.
InitElement ==
    /\ InitList
    /\ BufferQuiet
    /\ ElementQuiet
    /\ StackQuiet
    /\ NotifyQuiet
    /\ mParamEventList = << >>
    /\ mParameters = ZeroMemory
    /\ rpc = "idle"
    /\ spc = "idle"
    /\ inFramesToProcess = 0
    /\ framesRemaining = 0
    /\ currentStartFrame = 0
    /\ result = NoErr
    /\ slices = << >>
    /\ lastRender = "none"
    /\ lastScheduled = NothingWritten
    /\ mInitialized = FALSE
    /\ canSchedule = FALSE
    /\ UnitQuiet

NextElement ==
    \/ \E n \in CountsTried : UseIndexedParameters(n)
    \/ \E t \in ElemThreads, paramID \in ElemIDs, inValue \in Values,
           okWhenInitialized \in BOOLEAN :
          ConfigureParameter(t, paramID, inValue, okWhenInitialized)
    \/ \E t \in ElemThreads, paramID \in ElemIDs, inValue \in Values :
          SetParameterCall(t, paramID, inValue)
    \/ \E t \in ElemThreads : SetParameterReturn(t)
    \/ \E t \in ElemThreads, paramID \in ElemIDs : GetParameterCall(t, paramID)
    \/ \E t \in ElemThreads : GetParameterReturn(t)
    \/ ElementInitialize
    \/ ElementCleanup

SpecElement == InitElement /\ [][NextElement]_vars

\* ------------------------------------------------------------ AUBufferList claims

\* The AudioBufferList of the AUBufferList.
BoundList == mBuffers.mAudioBufferList

\* C11: a PrepareBufferOrError(format, n) made directly after an
\* Allocate(format, F) that returned without its arithmetic leaving UInt32, with
\* n <= F, succeeds and leaves a list bound to the allocated memory with one entry
\* per stream of the format, each of n x bytesPerFrame bytes.
C11_PrepareWithinAllocation ==
    bufferCall.op = "PrepareBuffer" /\ bufferCall.afterAllocate =>
        /\ bufferCall.status = "ok"
        /\ mPtrState = "ToMyMemory"
        /\ BoundList.mNumberBuffers = bufferCall.streams
        /\ Len(BoundList.mBuffers) = bufferCall.streams
        /\ \A i \in 1..Len(BoundList.mBuffers) :
              BoundList.mBuffers[i].mDataByteSize = bufferCall.bytes

\* C11 happens: two streams of a positive size were prepared right after Allocate.
C11_Witness ==
    /\ bufferCall.op = "PrepareBuffer"
    /\ bufferCall.afterAllocate
    /\ bufferCall.status = "ok"
    /\ bufferCall.streams = 2
    /\ bufferCall.bytes = 2
    /\ BoundList.mBuffers[2].mDataByteSize = 2

\* The ways PrepareBufferOrError returns an error.
PrepareErrors == { "TooManyFramesToProcess", "FormatNotSupported", "error" }

\* C12, as stated: a PrepareBufferOrError whose request exceeds the allocated
\* capacity (more frames, more streams, or more bytes per stream than the
\* per-stream maximum) returns an error and leaves the bound state and the buffer
\* entries as they were.
C12_AsStated ==
    bufferCall.op = "PrepareBuffer" /\ bufferCall.exceeds =>
        bufferCall.status \in PrepareErrors /\ ~bufferCall.changed

\* C12, for requests whose n x bytesPerFrame is a UInt32, on a list whose latest
\* Allocate returned: the same.
C12_ErrorBeyondCapacity ==
    (/\ bufferCall.op = "PrepareBuffer"
     /\ bufferCall.exceeds
     /\ bufferCall.bytes <= MaxSize
     /\ mBuffers.allocated) =>
        bufferCall.status \in PrepareErrors /\ ~bufferCall.changed

\* C12 happens: a list bound to two external buffers refused a request for more
\* bytes per stream than were allocated and stayed bound to them.
C12_Witness ==
    /\ bufferCall.op = "PrepareBuffer"
    /\ bufferCall.exceeds
    /\ bufferCall.status = "error"
    /\ mAllocatedFrames >= 1
    /\ mPtrState = "ToExternalMemory"
    /\ BoundList.mNumberBuffers = 2
    /\ BoundList.mBuffers[2].mData = ExternalMemory(2)

\* The calls that read the bound list.
ReadingCalls == { "GetBufferList", "CopyBufferListTo", "CopyBufferContentsTo" }

\* The calls that leave the bound state Invalid when they return.
Invalidating == { "none", "Allocate", "Deallocate", "InvalidateBufferList" }

\* C13: a GetBufferListOrError, CopyBufferListToOrError or
\* CopyBufferContentsToOrError made while the bound state is Invalid returns an
\* error and writes nothing to the caller's list or memory; and the bound state is
\* Invalid after construction and after every Allocate, Deallocate and
\* InvalidateBufferList that returned.
C13_InvalidReadsFail ==
    /\ (bufferCall.op \in ReadingCalls /\ bufferCall.wasInvalid =>
            bufferCall.status = "error" /\ ~bufferCall.wrote)
    /\ (bufferCall.op \in Invalidating /\ bufferCall.status \in {"none", "ok"} =>
            mPtrState = "Invalid")

\* C13 happens: a list that had been bound to its own memory and written to was
\* invalidated, and a copy of its contents into a caller's list of two buffers
\* with memory was refused.
C13_Witness ==
    /\ bufferCall.op = "CopyBufferContentsTo"
    /\ bufferCall.wasInvalid
    /\ bufferCall.status = "error"
    /\ mBuffers.allocated
    /\ BoundList.mNumberBuffers = 2
    /\ BoundList.mBuffers[1].mData = MyMemory(0)
    /\ << "mine", 0 >> \in DOMAIN memory
    /\ destabl.mNumberBuffers = 2
    /\ destabl.mBuffers[1].mData = DestMemory(1)
    /\ destabl.mBuffers[1].mDataByteSize = 2

\* Every buffer of the bound list that has bytes has data.
SourceHasData ==
    \A i \in 1..BoundList.mNumberBuffers :
        BoundList.mBuffers[i].mDataByteSize = 0 \/ BoundList.mBuffers[i].mData # NullPtr

SameBytes(p, q) == p.size = q.size /\ p.bytes = q.bytes

\* Every buffer of the caller's list has data.
DestinationHasData ==
    \A i \in 1..Len(destabl.mBuffers) : destabl.mBuffers[i].mData # NullPtr

\* C15: a CopyBufferContentsToOrError from a bound list of at least one buffer,
\* each with data, into a caller's list of more buffers, each with data, succeeds;
\* destination buffer i then has the byte size and the bytes of source buffer i
\* while the source has one, and those of the last source buffer beyond that; and
\* no byte of a source buffer was changed.
C15_LastSourceDuplicated ==
    (/\ bufferCall.op = "CopyBufferContentsTo"
     /\ ~bufferCall.wasInvalid
     /\ mBuffers.allocated
     /\ BoundList.mNumberBuffers >= 1
     /\ destabl.mNumberBuffers > BoundList.mNumberBuffers
     /\ SourceHasData
     /\ DestinationHasData) =>
        /\ bufferCall.status = "ok"
        /\ ~bufferCall.sourceChanged
        /\ \A i \in 1..destabl.mNumberBuffers :
              SameBytes(Payload(memory, destabl.mBuffers[i]),
                        Payload(memory, BoundList.mBuffers[
                            IF i <= BoundList.mNumberBuffers THEN i
                            ELSE BoundList.mNumberBuffers]))

\* C15 happens: two written source buffers were copied into three destination
\* buffers, the third of which received the second source buffer's bytes.
C15_Witness ==
    /\ bufferCall.op = "CopyBufferContentsTo"
    /\ bufferCall.status = "ok"
    /\ BoundList.mNumberBuffers = 2
    /\ destabl.mNumberBuffers = 3
    /\ Payload(memory, BoundList.mBuffers[1]).bytes = {<< 0, 1 >>, << 1, 1 >>}
    /\ Payload(memory, BoundList.mBuffers[2]).bytes = {<< 0, 2 >>, << 1, 2 >>}
    /\ destabl.mBuffers[3].mData = DestMemory(3)
    /\ Payload(memory, destabl.mBuffers[3]) =
           [size |-> 2, data |-> TRUE, bytes |-> {<< 0, 2 >>, << 1, 2 >>}]

\* ------------------------------------------------------------ AUElement claims

\* The value the element holds for a parameter it knows.
Held(paramID) ==
    IF mUseIndexedParameters THEN mIndexedParameters[paramID + 1] ELSE mParameters[paramID]

\* C16: on an indexed element of n parameters a GetParameter(i) with i < n returns
\* the value of the latest SetParameter(i, v) (or of one that ran during the
\* call), whatever was written to other ids; a SetParameter(i, v) with i < n
\* leaves v in parameter i and every other value as it was; and a GetParameter or
\* SetParameter with i >= n fails with kAudioUnitErr_InvalidParameter and changes
\* no value.
C16_IndexedSetGet ==
    /\ (eret.op = "Get" /\ eret.indexed =>
            IF eret.id < Len(mIndexedParameters)
            THEN eret.status = "ok" /\ eret.value \in eret.allowed
            ELSE eret.status = "InvalidParameter")
    /\ (eret.op = "Set" /\ eret.indexed =>
            /\ ~eret.othersChanged
            /\ IF eret.id < Len(mIndexedParameters)
               THEN eret.status = "ok" /\ mIndexedParameters[eret.id + 1] = eret.value
               ELSE eret.status = "InvalidParameter")

\* C16 happens: with two indexed parameters, parameter 0 holding 1, a
\* GetParameter(1) that no write overlapped returned the 2 that had been set.
C16_Witness ==
    /\ eret.op = "Get"
    /\ eret.indexed
    /\ Len(mIndexedParameters) = 2
    /\ mIndexedParameters[1] = 1
    /\ eret.id = 1
    /\ eret.allowed = {2}
    /\ eret.value = 2

C18_AsStated ==
    /\ (declared # {} => mUseIndexedParameters)
    /\ (DOMAIN mParameters # {} => ~mUseIndexedParameters)
    /\ (mUseIndexedParameters => {Len(mIndexedParameters)} = declared)

\* C18, corrected: once indexed the element stays indexed; and as long as
\* UseIndexedParameters has not been called on an element that was indexed
\* already or held a sparse parameter, an element that holds a sparse parameter is
\* not indexed and the number of indexed parameters is the count that was
\* declared.
C18_ModeFixedWhenDeclaredFirst ==
    /\ (declared # {} => mUseIndexedParameters)
    /\ (~lateDeclare =>
            /\ (DOMAIN mParameters # {} => ~mUseIndexedParameters)
            /\ (mUseIndexedParameters => {Len(mIndexedParameters)} = declared))

\* C18 happens: an element declared once with two parameters, on a unit since
\* initialized, had its parameter 1 set.
C18_Witness ==
    /\ mUseIndexedParameters
    /\ ~lateDeclare
    /\ declared = {2}
    /\ mInitialized
    /\ eret.op = "Set"
    /\ eret.id = 1
    /\ mIndexedParameters[2] = 2

\* C19: a GetParameter of a parameter the element holds returns the value the
\* latest SetParameter of that id had left when the call began or a value that a
\* SetParameter of that id stored while the call ran; and every parameter that was
\* written holds the value of the latest SetParameter of its own id.
C19_AtomicValues ==
    /\ (eret.op = "Get" /\ eret.known =>
            eret.status = "ok" /\ eret.value \in eret.allowed)
    /\ \A p \in DOMAIN lastWrite : HasParameterID(p) /\ Held(p) = lastWrite[p]

\* C19 happens: a GetParameter(0) that began when parameter 0 held 1, and during
\* which another thread's SetParameter(0, 2) returned, returned 2 while
\* parameter 1 went on holding 1.
C19_Witness ==
    /\ eret.op = "Get"
    /\ eret.id = 0
    /\ eret.allowed = {1, 2}
    /\ eret.value = 2
    /\ HasParameterID(1)
    /\ Held(1) = 1

\* ------------------------------------------- more claims about the list

\* What the list holds after one request: Add appends unless an equal item is
\* there, Remove deletes the first equal item if there is one, Clear empties.
ApplyRequest(items, req) ==
    IF req.type = "Add"
    THEN IF \E i \in 1..Len(items) : items[i] = req.obj THEN items
         ELSE Append(items, req.obj)
    ELSE IF req.type = "Remove"
    THEN IF \E i \in 1..Len(items) : items[i] = req.obj
         THEN LET k == CHOOSE i \in 1..Len(items) :
                          /\ items[i] = req.obj
                          /\ \A j \in 1..(i - 1) : items[j] # req.obj
              IN  SubSeq(items, 1, k - 1) \o SubSeq(items, k + 1, Len(items))
         ELSE items
    ELSE << >>

RECURSIVE ApplyRequests(_, _)
ApplyRequests(items, reqs) ==
    IF reqs = << >> THEN items
    ELSE ApplyRequests(ApplyRequest(items, pushed[Head(reqs)]), Tail(reqs))

\* The requests of the latest Update()'s batch that it has replayed so far.
BatchReplayed == SubSeq(batch, 1, Len(batch) - Len(Detached))

\* The latest Len(BatchReplayed) entries of the replay log.
LatestReplays ==
    SubSeq(replayLog, Len(replayLog) - Len(BatchReplayed) + 1, Len(replayLog))

\* C26: whenever Update() is between two requests or has returned (and the list
\* has not been destroyed since), it has replayed the requests of the batch it
\* detached in the order of their pushes, oldest first, and the active list is
\* what applying them one by one (Add appends unless an equal item is present,
\* Remove deletes the first equal item if any, Clear empties) makes of the list it
\* found; having returned, it has replayed the whole batch.
C26_ReplayedInPushOrder ==
    (cpc \in {"idle", "process"} /\ Alive) =>
        /\ \A i, j \in 1..Len(batch) : i < j => batch[i] < batch[j]
        /\ LatestReplays = BatchReplayed
        /\ ActiveItems = ApplyRequests(activeBefore, BatchReplayed)
        /\ cpc = "idle" => BatchReplayed = batch

\* One Update() detached a Clear and a later Add(X) together and has returned: the
\* list, which held X and Y, holds X alone.
C26_Witness ==
    /\ cpc = "idle"
    /\ activeBefore = << "X", "Y" >>
    /\ Len(batch) = 2
    /\ pushed[batch[1]].type = "Clear"
    /\ pushed[batch[2]] = [type |-> "Add", obj |-> "X"]
    /\ ActiveItems = << "X" >>

NodesOn(h) == SeqToSet(Chain(h))

\* The nodes Update() holds: the requests it has detached and not replayed, and
\* the nodes it is handing to FreeNode.
ConsumerHeld ==
    (IF cpc \in {"process", "freeRead", "freeCAS"} THEN NodesOn(reversed) ELSE {})
        \cup SeqToSet(toFree)

\* The nodes of the active list; a Clear that is being replayed has given them up
\* (SetHead(nullptr) follows the last FreeNode).
ActiveNodes == IF clearing THEN {} ELSE NodesOn(mActiveList)

\* The nodes some thread has detached from the free list and will push back.
HeldNodes == UNION { SeqToSet(HeldChain(t)) : t \in Producers }

\* The nodes AllocNode has handed to a call that has not pushed them yet.
HandedOut == { pnode[t] : t \in Producers } \ {Nil}

\* C27: the node AllocNode hands to a caller is a constructed node that no other
\* caller has, that is on none of the free, pending and active lists, in no
\* detached part of the free list and not held by Update(); no constructed node
\* is ever in none of these places; and when no call is in progress every node
\* is on a list or held by Update(), none in a detached part of the free list.
C27_AllocNodeExclusive ==
    LET onLists == NodesOn(mFreeList) \cup NodesOn(mPendingList) \cup ConsumerHeld
        held == HeldNodes
    IN  /\ \A t \in Producers :
              pnode[t] # Nil =>
                  /\ pnode[t] \in 1..constructed
                  /\ \A u \in Producers \ {t} : pnode[u] # pnode[t]
                  /\ pnode[t] \notin onLists \cup held \cup ActiveNodes
        /\ (1..constructed) \subseteq
              onLists \cup NodesOn(mActiveList) \cup held \cup HandedOut
        /\ (\A t \in Producers : ppc[t] = "idle") =>
              (1..constructed) \subseteq onLists \cup NodesOn(mActiveList)

\* Two calls are inside AllocNode: one has taken the first node of the free list
\* and is pushing the remainder back, the other found the free list empty
\* meanwhile and constructed a node.
C27_Witness ==
    /\ ppc["t1"] = "pmCAS"
    /\ HeldChain("t1") # << >>
    /\ pnode["t1"] \in 1..RecycledNodes
    /\ ppc["t2"] = "pushRead"
    /\ pnode["t2"] = constructed
    /\ constructed > RecycledNodes

\* C28: while Update() is not running, no step changes what iterating
\* begin()..end() yields, whatever Add, Remove and Clear push meanwhile.
C28_ProducersLeaveActiveList ==
    [][(cpc = "idle" /\ cpc' = "idle" /\ Alive') => ActiveItems' = ActiveItems]_vars

\* Update() has replayed Remove(X) and returned; a Clear has been pushed since and
\* another call is in progress: the list holds Y as Update() left it.
C28_Witness ==
    /\ cpc = "idle"
    /\ activeBefore = << "X", "Y" >>
    /\ batch = << 1 >>
    /\ pushed = << [type |-> "Remove", obj |-> "X"], [type |-> "Clear", obj |-> NoObj] >>
    /\ RequestsOn(mPendingList) = << 2 >>
    /\ ActiveItems = << "Y" >>

\* The nodes that exist.
NodesInExistence == (1..constructed) \ deleted

\* A step of Update(): the consumer thread moves on (no other action changes
\* where it is or what its locals hold).
UpdateStep == consVars' # consVars

\* Every node that exists is on the free list (or in a part of it a caller has
\* detached or been handed), on the pending stack, on the active list or among
\* the requests Update() has detached, and on one of them only.
Recycled ==
    LET held == UNION { SeqToSet(HeldChain(t)) : t \in Producers }
        handed == { pnode[t] : t \in Producers } \ {Nil}
        onLists == Chain(mFreeList) \o Chain(mPendingList) \o Chain(mActiveList)
                      \o (IF cpc = "process" THEN Chain(reversed) ELSE << >>)
    IN  /\ Cardinality(SeqToSet(onLists)) = Len(onLists)
        /\ NodesInExistence = SeqToSet(onLists) \cup held \cup handed

\* C29: no step of Update() constructs or deletes a node; whenever Update() is
\* between two requests or has returned, every node that exists is on the free
\* list, the pending stack, the active list or among the requests still detached
\* (the request nodes it consumed and the nodes it unlinked are on the free
\* list or have been taken from it by a caller since); a node is constructed only
\* by a call of Add, Remove or Clear whose PopAll found the free list empty; and
\* nodes are deleted only by the destructor.
C29_UpdateRecycles ==
    /\ []((cpc \in {"idle", "process"} /\ Alive) => Recycled)
    /\ [][
        /\ UpdateStep => (constructed' = constructed /\ deleted' = deleted)
        /\ constructed' # constructed =>
              /\ constructed' = constructed + 1
              /\ mFreeList = Nil
              /\ \E t \in Producers :
                    /\ ppc[t] \in {"idle", "allocRead"}
                    /\ pnode'[t] = constructed'
        /\ deleted' # deleted =>
              /\ Quiescent
              /\ deleted' = NodesInExistence
              /\ mActiveList' = Nil /\ mPendingList' = Nil /\ mFreeList' = Nil
      ]_vars

\* One Update() has replayed Add(X), which was in the list, and Remove(Y): the two
\* request nodes and Y's node are on the free list, and two nodes were
\* constructed, by the two calls.
C29_Witness ==
    /\ cpc = "idle"
    /\ Len(batch) = 2
    /\ pushed[batch[1]] = [type |-> "Add", obj |-> "X"]
    /\ pushed[batch[2]] = [type |-> "Remove", obj |-> "Y"]
    /\ ActiveItems = << "X" >>
    /\ Len(Chain(mFreeList)) = 3
    /\ constructed = Len(InUseItems) + 2
    /\ deleted = {}

\* ------------------------------------ more claims about the slicing loop

\* The frames at which an event list asks for a boundary: where each event starts
\* and where each ramp ends (start + duration).
Boundaries(list) ==
    { e.bufferOffset : e \in EventsOf(list) }
        \cup { e.bufferOffset + e.durationInFrames :
                  e \in { r \in EventsOf(list) : r.eventType = "Ramped" } }

\* The least member of a non-empty set of numbers.
Least(S) == CHOOSE x \in S : \A y \in S : x <= y

\* The first boundary strictly between cursor c and the block's end N, N if none.
NextBoundary(list, c, N) ==
    Least({N} \cup { b \in Boundaries(list) : c < b /\ b < N })

\* Every slice handed to the callback ends at the first boundary after its start.
EndsAtNextBoundary ==
    \A k \in 1..Len(slices) :
        slices[k].start + slices[k].frames =
            NextBoundary(mParamEventList, slices[k].start, inFramesToProcess)

\* C24, as stated: in every pass of ProcessForScheduledParams, for cursor c and
\* block length N, the slice ends at the least of N and the event starts and ramp
\* ends b with c < b < N, for every event list.
C24_AsStated == EndsAtNextBoundary

\* C24, for block lengths that are not negative as an SInt32: the same.
C24_SliceEndsAtNextBoundary == inFramesToProcess <= MaxSInt => EndsAtNextBoundary

\* A ramp that starts before frame 0 and ends at frame 1, and an immediate event
\* at the last frame: three slices, bounded by the ramp's end and the event.
C24_Witness ==
    /\ spc = "returned"
    /\ inFramesToProcess = MaxFrames
    /\ mParamEventList = << Ramped("A", -1, 2), Immediate("A", MaxFrames - 1, 2) >>
    /\ Len(slices) = 3
    /\ slices[1].start + slices[1].frames = 1
    /\ slices[2].start + slices[2].frames = MaxFrames - 1
    /\ slices[3].start + slices[3].frames = MaxFrames

\* C25: the slices handed to the callback are non-empty, the first starts at 0,
\* each next one starts where the one before it ended, every slice lies inside
\* [0,N), and when ProcessForScheduledParams has returned noErr the last one ends
\* at N; no slice ends at frame 0, whatever events start there.
C25_SlicesPartitionBlock ==
    /\ \A k \in 1..Len(slices) :
          /\ slices[k].frames > 0
          /\ slices[k].start = IF k = 1 THEN 0
                               ELSE slices[k - 1].start + slices[k - 1].frames
          /\ slices[k].start + slices[k].frames <= inFramesToProcess
          /\ slices[k].start + slices[k].frames # 0
    /\ (spc = "returned" /\ result = NoErr /\ inFramesToProcess > 0) =>
          /\ slices # << >>
          /\ Last(slices).start + Last(slices).frames = inFramesToProcess

\* Two events at offset 0 and a ramp starting at frame 1: the block is cut at
\* frame 1 and at the ramp's end only.
C25_Witness ==
    /\ spc = "returned"
    /\ result = NoErr
    /\ inFramesToProcess = MaxFrames
    /\ \E i \in 1..Len(mParamEventList) :
          mParamEventList[i].eventType = "Immediate" /\ mParamEventList[i].bufferOffset = 0
    /\ \E i \in 1..Len(mParamEventList) :
          mParamEventList[i] = Ramped("A", 1, 1)
    /\ Len(slices) = 3
    /\ slices[1].start = 0 /\ slices[1].frames = 1
    /\ slices[3].start + slices[3].frames = MaxFrames

\* ------------------------------------ more claims about the buffer list

\* A step in which a call that changes the AUBufferList was made, its behaviour
\* defined.
BufferCallMade == bufferCalls' # bufferCalls /\ bufferCall'.status # "undefined"

\* The bound state is left as it was, and the descriptor with it.
StateAndDescriptorKept == mPtrState' = mPtrState /\ mBuffers' = mBuffers

\* C30: mPtrState becomes ToMyMemory only in a PrepareBuffer that succeeds, and
\* ToExternalMemory only in a PrepareNullBuffer, SetBufferList or SetBuffer that
\* succeeds; it becomes Invalid only in InvalidateBufferList, Allocate and
\* Deallocate, and is Invalid after each of them that returns; a SetBuffer made
\* in state Invalid, or with an index not below the current buffer count, fails
\* and leaves state and descriptor as they were.
C30_BoundStateTransitions ==
    [][ BufferCallMade =>
          /\ (mPtrState' # mPtrState /\ mPtrState' = "ToMyMemory") =>
                 (bufferCall'.op = "PrepareBuffer" /\ bufferCall'.status = "ok")
          /\ (mPtrState' # mPtrState /\ mPtrState' = "ToExternalMemory") =>
                 /\ bufferCall'.op \in {"PrepareNullBuffer", "SetBufferList", "SetBuffer"}
                 /\ bufferCall'.status = "ok"
          /\ (mPtrState' # mPtrState /\ mPtrState' = "Invalid") =>
                 bufferCall'.op \in {"InvalidateBufferList", "Allocate", "Deallocate"}
          /\ ( /\ bufferCall'.op \in {"InvalidateBufferList", "Allocate", "Deallocate"}
               /\ bufferCall'.status = "ok" ) => mPtrState' = "Invalid"
          /\ bufferCall'.op = "SetBuffer" =>
                 IF \/ mPtrState = "Invalid"
                    \/ bufferCall'.index >= mBuffers.mAudioBufferList.mNumberBuffers
                 THEN bufferCall'.status = "error" /\ StateAndDescriptorKept
                 ELSE bufferCall'.status = "ok" /\ mPtrState' = "ToExternalMemory"
      ]_vars

\* A list prepared over its own memory, of one buffer, on which SetBuffer with
\* index 1 has just failed: the state is still ToMyMemory.
C30_Witness ==
    /\ bufferCall.op = "SetBuffer"
    /\ bufferCall.index = 1
    /\ bufferCall.status = "error"
    /\ mPtrState = "ToMyMemory"
    /\ mBuffers.allocated
    /\ mBuffers.mAudioBufferList.mNumberBuffers = 1

\* ------------------------------------------------------- AUAtomicStack

\* The items of the chain that starts at h, following Next().
StackChain(h) == ChainF(itemNext, h, MaxItems + 1)

\* The PushAtomic calls made so far, returned or not.
RECURSIVE Total(_, _)
Total(f, S) ==
    IF S = {} THEN 0
    ELSE LET x == CHOOSE y \in S : TRUE IN f[x] + Total(f, S \ {x})

PushesMade == Total(pushes, StackItems) + Cardinality({ t \in Pushers : wpc[t] # "idle" })

StackFrame == UNCHANGED << listVars, renderVars, bufferVars, elementVars, notifyVars, unitVars >>

\* The body of PushAtomic's loop: head_ = mHead; item->Next() = head_.
PushLoad(t, item) ==
    /\ whead' = [whead EXCEPT ![t] = mHead]
    /\ itemNext' = [itemNext EXCEPT ![item] = mHead]
    /\ wpc' = [wpc EXCEPT ![t] = "cas"]

\* PushAtomic(item) is called by thread t with an item it owns; the loop body
\* runs for the first time.
PushAtomic(t, item) ==
    /\ wpc[t] = "idle"
    /\ item \in inHand
    /\ PushesMade < MaxPushes
    /\ PushLoad(t, item)
    /\ witem' = [witem EXCEPT ![t] = item]
    /\ inHand' = inHand \ {item}
    /\ UNCHANGED << mHead, qpc, qresult, qnext, pushes, pops, wasEmpty, popReturned >>
    /\ StackFrame

\* The loop body again, after a CAS that failed.
PushAgain(t) ==
    /\ wpc[t] = "again"
    /\ PushLoad(t, witem[t])
    /\ UNCHANGED << mHead, witem, qpc, qresult, qnext, inHand, pushes, pops, wasEmpty,
                    popReturned >>
    /\ StackFrame

\* while (!CompareAndSwap(head_, item)): on success the call returns.
PushAtomicCAS(t) ==
    /\ wpc[t] = "cas"
    /\ IF CompareAndSwap(mHead, whead[t])
       THEN /\ mHead' = witem[t]
            /\ pushes' = [pushes EXCEPT ![witem[t]] = @ + 1]
            /\ wpc' = [wpc EXCEPT ![t] = "idle"]
            /\ witem' = [witem EXCEPT ![t] = Nil]
            /\ whead' = [whead EXCEPT ![t] = Nil]
       ELSE /\ wpc' = [wpc EXCEPT ![t] = "again"]
            /\ UNCHANGED << mHead, pushes, witem, whead >>
    /\ UNCHANGED << itemNext, qpc, qresult, qnext, inHand, pops, wasEmpty, popReturned >>
    /\ StackFrame

\* A pop that takes the whole stack: the mutant of ResultNext.
ResultNextNull(item) == Nil

\* result->Next()
ResultNext(item) == itemNext[item]

\* if ((result = mHead) == nullptr) break;  A null head ends the call, which
\* returns nullptr.
PopLoad ==
    /\ qresult' = mHead
    /\ IF mHead = Nil
       THEN /\ qpc' = "idle"
            /\ popReturned' = << Nil >>
            /\ wasEmpty' = TRUE
       ELSE /\ qpc' = "next"
            /\ popReturned' = << >>
            /\ UNCHANGED wasEmpty

\* PopAtomicSingleReader is called by the reader; the loop body runs for the
\* first time.
PopAtomicSingleReader ==
    /\ qpc = "idle"
    /\ PopLoad
    /\ UNCHANGED << mHead, itemNext, wpc, witem, whead, qnext, inHand, pushes, pops >>
    /\ StackFrame

\* The loop body again, after a CAS that failed.
PopAgain ==
    /\ qpc = "again"
    /\ PopLoad
    /\ UNCHANGED << mHead, itemNext, wpc, witem, whead, qnext, inHand, pushes, pops >>
    /\ StackFrame

\* The second argument of the CAS is evaluated: result->Next().
PopReadNext ==
    /\ qpc = "next"
    /\ qnext' = ResultNext(qresult)
    /\ qpc' = "cas"
    /\ UNCHANGED << mHead, itemNext, wpc, witem, whead, qresult, inHand, pushes, pops,
                    wasEmpty, popReturned >>
    /\ StackFrame

\* while (!CompareAndSwap(result, result->Next())): on success the call returns
\* result, which is its caller's from then on.
PopAtomicCAS ==
    /\ qpc = "cas"
    /\ IF CompareAndSwap(mHead, qresult)
       THEN /\ mHead' = qnext
            /\ qpc' = "idle"
            /\ popReturned' = << qresult >>
            /\ pops' = [pops EXCEPT ![qresult] = @ + 1]
            /\ inHand' = inHand \cup {qresult}
            /\ wasEmpty' = (wasEmpty \/ qnext = Nil)
       ELSE /\ qpc' = "again"
            /\ UNCHANGED << mHead, popReturned, pops, inHand, wasEmpty >>
    /\ UNCHANGED << itemNext, wpc, witem, whead, qresult, qnext, pushes >>
    /\ StackFrame

\* A new AUAtomicStack, two threads pushing and one popping.
InitStack ==
    /\ InitList
    /\ RenderQuiet
    /\ mInitialized = FALSE
    /\ canSchedule = FALSE
    /\ BufferQuiet
    /\ ElementQuiet
    /\ StackQuiet
    /\ NotifyQuiet
    /\ UnitQuiet

NextStack ==
    \/ \E t \in Pushers, item \in StackItems : PushAtomic(t, item)
    \/ \E t \in Pushers : PushAgain(t)
    \/ \E t \in Pushers : PushAtomicCAS(t)
    \/ PopAtomicSingleReader
    \/ PopAgain
    \/ PopReadNext
    \/ PopAtomicCAS

SpecStack == InitStack /\ [][NextStack]_vars

\* The items on the stack.
OnStack == SeqToSet(StackChain(mHead))

\* C21: with one thread calling PopAtomicSingleReader and two calling PushAtomic,
\* every push of an item is answered by at most one pop that returns it; an item
\* whose push has returned and that no pop has returned since is on the stack,
\* once; and a pop that returned nullptr found the stack empty at some instant
\* of the call.
C21_SingleReaderPop ==
    /\ Len(StackChain(mHead)) = Cardinality(OnStack)
    /\ \A i \in StackItems :
          /\ pops[i] <= pushes[i]
          /\ pushes[i] - pops[i] = IF i \in OnStack THEN 1 ELSE 0
          /\ i \in inHand <=> (i \notin OnStack /\ \A t \in Pushers : witem[t] # i)
    /\ popReturned = << Nil >> => wasEmpty

\* Two pushes have returned, a pop has returned one of the two items, the other
\* is still on the stack, and a third push has just lost its CAS.
C21_Witness ==
    /\ qpc = "idle"
    /\ popReturned # << >>
    /\ popReturned[1] # Nil
    /\ pops[popReturned[1]] = 1
    /\ Total(pushes, StackItems) = 2
    /\ Cardinality(OnStack) = 1
    /\ \E t \in Pushers : wpc[t] = "again"

\* ------------------------------------------------- render notifications

\* The thread that registers and removes render observers.
NotifyThreads == {"t1"}

\* AUBase::SetRenderNotification(inProc, inRefCon) with a non-null inProc, up to
\* mRenderCallbacksTouched = true; obj stands for RenderCallback(inProc, inRefCon).
SetRenderNotification(t, obj) ==
    /\ ppc[t] = "idle"
    /\ mRenderCallbacksTouched' = TRUE
    /\ pop' = [pop EXCEPT ![t] = [type |-> "Add", obj |-> obj]]
    /\ ppc' = [ppc EXCEPT ![t] = "touched"]
    /\ UNCHANGED << mNext, mEventType, mObject, constructed, deleted, mActiveList,
                    mPendingList, mFreeList, pnode, phead, prest, ptail, consVars,
                    histVars >>
    /\ UNCHANGED << renderVars, bufferVars, elementVars, stackVars, usesFixedBlockSize,
                    outputFormat, ioData, renderCall, renderLog, unitVars >>

\* SetRenderNotification goes on: mRenderCallbacks.Add(RenderCallback(inProc, inRefCon)).
SetRenderNotificationAdd(t) ==
    /\ ppc[t] = "touched"
    /\ PopAllLoad(t, pop[t])
    /\ UNCHANGED pop

\* AUBase::RemoveRenderNotification(inProc, inRefCon).
RemoveRenderNotification(t, obj) == Remove(t, obj)

\* An audio unit, initialized or not, on which no observer was ever registered,
\* or one on which X and Y were registered and have been notified before.
InitNotify ==
    /\ \/ InitList /\ mRenderCallbacksTouched = FALSE
       \/ InitInUse /\ mRenderCallbacksTouched = TRUE
    /\ RenderQuiet
    /\ BufferQuiet
    /\ ElementQuiet
    /\ StackQuiet
    /\ canSchedule = FALSE
    /\ \/ mInitialized = TRUE /\ usesFixedBlockSize = FALSE /\ outputFormat \in OutputFormats
       \/ /\ mInitialized \in BOOLEAN
          /\ usesFixedBlockSize \in BOOLEAN
          /\ outputFormat = Format(TRUE, 2, 2)
    /\ ioData = EmptyABL
    /\ renderCall = NoRenderCall
    /\ renderLog = << >>
    /\ UnitQuiet

NextNotify ==
    \/ \E t \in NotifyThreads, obj \in Items :
          CallsMade < MaxCalls /\ SetRenderNotification(t, obj)
    \/ \E t \in NotifyThreads : SetRenderNotificationAdd(t)
    \/ \E t \in NotifyThreads, obj \in Items :
          CallsMade < MaxCalls /\ RemoveRenderNotification(t, obj)
    \/ \E t \in NotifyThreads : AllocRead(t)
    \/ \E t \in NotifyThreads : AllocCAS(t)
    \/ \E t \in NotifyThreads : PushMultipleRead(t)
    \/ \E t \in NotifyThreads : PushMultipleCAS(t)
    \/ \E t \in NotifyThreads : PushRead(t)
    \/ \E t \in NotifyThreads : PushCAS(t)
    \/ \E c \in RenderCalls : DoRender(c.inFrames, c.inBusNumber, c.ioData)
    \/ UpdatePopRead
    \/ UpdatePopCAS
    \/ ProcessAdd
    \/ ProcessRemove
    \/ FreeRead
    \/ FreeCAS
    \/ PreRenderNotify
    \/ DoRenderBus
    \/ RenderThrows
    \/ ProcessForScheduledParams
    \/ \E status \in {NoErr, SliceError} : ProcessSlice(status)
    \/ DoRenderReturn

SpecNotify == InitNotify /\ [][NextNotify]_vars

\* ---------------------------------------- claims about DoRender's notifications

\* The calls of the render callbacks `items`, in order, as renderLog records them.
NotifyEntries(what, items, flag) ==
    [ i \in 1..Len(items) |-> LogEntry(what, items[i], flag) ]

\* What a DoRender with observers does up to the rendering: Update(), then one
\* pre-render call for each observer of the active list, in list order.
UpdatedAndNotified ==
    << LogEntry("Update", NoObj, FALSE) >> \o NotifyEntries("PreRender", ActiveItems, FALSE)

\* The whole of it: then DoRenderBus, SetRenderError with what it returned, and one
\* post-render call for each observer of the active list, with the error flag
\* exactly when DoRenderBus returned an error.
NotifiedAroundRender ==
    renderLog =
        UpdatedAndNotified
            \o << LogEntry("DoRenderBus", NoObj, FALSE),
                  LogEntry("SetRenderError", renderCall.error, FALSE) >>
            \o NotifyEntries("PostRender", ActiveItems, renderCall.error # NoErr)

\* Every post-render call of an observer comes after a pre-render call of it in
\* the same DoRender.
NoPostWithoutPre ==
    \A i \in 1..Len(renderLog) :
        renderLog[i].what = "PostRender" =>
            \E j \in 1..(i - 1) :
                renderLog[j].what = "PreRender" /\ renderLog[j].arg = renderLog[i].arg

\* The latest DoRender passed its checks with mRenderCallbacksTouched set, and has
\* returned.
ObservedCallEnded ==
    /\ renderCall.status = "returned"
    /\ renderCall.passed
    /\ renderCall.touched

\* C22, as stated: a DoRender call that passes validation, with observers
\* registered, updates the observer list, calls every observer of the active list
\* once with the pre-render flag, renders the bus, and calls every observer once
\* with the post-render flag, and with the post-render-error flag exactly when
\* rendering returned an error; no observer is called after the rendering without
\* having been called before it.
C22_AsStated == ObservedCallEnded => (NotifiedAroundRender /\ NoPostWithoutPre)

\* C22, for calls whose rendering returned, with or without an error: the same;
\* and in every call, once the pre-render calls are made, every request pushed
\* before Update() began has been applied, and no observer is called after the
\* rendering without having been called before it.
C22_NotifiedAroundRender ==
    /\ (ObservedCallEnded /\ ~renderCall.thrown) => NotifiedAroundRender
    /\ (rpc \in {"preRender", "renderBus"} /\ renderCall.touched) =>
          /\ due = {}
          /\ SubSeq(renderLog, 1, Len(UpdatedAndNotified)) = UpdatedAndNotified
    /\ NoPostWithoutPre

\* A DoRender on a unit with observers X and Y whose Update() replayed a request
\* and whose rendering returned an error: both were called before and after it,
\* the second time with the error flag.
C22_Witness ==
    /\ ObservedCallEnded
    /\ renderCall.error = SliceError
    /\ batch # << >>
    /\ ActiveItems = << "X", "Y" >>
    /\ Len(renderLog) = 7
    /\ renderLog[2] = LogEntry("PreRender", "X", FALSE)
    /\ renderLog[7] = LogEntry("PostRender", "Y", TRUE)

\* The conditions under which DoRender is to fail, of the latest call; the last
\* two are about the format of an output bus that exists.
NotInitialized == ~mInitialized
TooManyFrames == renderCall.inFrames > mMaxFramesPerSlice
WrongBlockSize == usesFixedBlockSize /\ renderCall.inFrames # mMaxFramesPerSlice
WrongBufferCount ==
    /\ renderCall.inBusNumber = 0
    /\ renderCall.ioData.mNumberBuffers # NumberChannelStreams(outputFormat)
SmallBuffer ==
    /\ renderCall.inBusNumber = 0
    /\ \E i \in 1..renderCall.ioData.mNumberBuffers :
          /\ renderCall.ioData.mBuffers[i].mData # NullPtr
          /\ renderCall.ioData.mBuffers[i].mDataByteSize <
                 renderCall.inFrames * outputFormat.mBytesPerFrame

\* The error that corresponds to the first of them that holds.
CorrespondingError ==
    IF NotInitialized THEN "kAudioUnitErr_Uninitialized"
    ELSE IF TooManyFrames THEN "kAudioUnitErr_TooManyFramesToProcess"
    ELSE "kAudio_ParamError"

\* The latest DoRender returned the corresponding error, having called
\* SetRenderError with it and done nothing else: no Update(), no call of an
\* observer, no DoRenderBus.
FailedFast ==
    /\ renderCall.status = "returned"
    /\ renderCall.error = CorrespondingError
    /\ renderLog = << LogEntry("SetRenderError", CorrespondingError, FALSE) >>
    /\ rpc = "idle"

\* C23, as stated: when the unit is not initialized, the frame count exceeds the
\* maximum frames per slice, a fixed block size is required and the frame count
\* differs from it, the host's buffer count differs from the output format's
\* stream count, or a non-null host buffer is smaller than frames x bytesPerFrame,
\* DoRender returns the corresponding error and records it as the render error
\* without updating the observer list, calling an observer or rendering the bus.
C23_AsStated ==
    ( /\ renderCall.status # "none"
      /\ NotInitialized \/ TooManyFrames \/ WrongBlockSize \/ WrongBufferCount \/ SmallBuffer )
        => FailedFast

\* C23, with the last condition taken for frame counts whose product with
\* bytesPerFrame is a UInt32: the same.
C23_FailsFast ==
    ( /\ renderCall.status # "none"
      /\ \/ NotInitialized \/ TooManyFrames \/ WrongBlockSize \/ WrongBufferCount
         \/ SmallBuffer /\ renderCall.inFrames * outputFormat.mBytesPerFrame <= MaxSize )
        => FailedFast

\* A unit with two observers and a request pending on its observer list was
\* asked to render into two buffers of which the second is too small: the call
\* returned kAudio_ParamError, the request is still pending.
C23_Witness ==
    /\ renderCall.status = "returned"
    /\ renderCall.error = "kAudio_ParamError"
    /\ mInitialized
    /\ ~WrongBlockSize /\ ~WrongBufferCount
    /\ SmallBuffer
    /\ renderCall.ioData.mNumberBuffers = 2
    /\ mRenderCallbacksTouched
    /\ Len(ActiveItems) = 2
    /\ mPendingList # Nil
    /\ Len(renderLog) = 1

\* ------------------------------------------ more claims about AUBufferList

\* The bytes [mData, mData + mDataByteSize) of the i-th entry of the bound list,
\* as offsets from the region's base.
StreamRange(i) ==
    { BoundList.mBuffers[i].mData.offset + k :
        k \in 0..(BoundList.mBuffers[i].mDataByteSize - 1) }

\* The i-th entry's data is at the region's base + (i - 1) x the per-stream
\* maximum; the base of a region of no bytes is null.
AtFixedStride(i) ==
    BoundList.mBuffers[i].mData =
        IF mBuffers.mBufferDataSize = 0 THEN NullPtr
        ELSE MyMemory((i - 1) * mBuffers.mMaximumBytesPerBuffer)

\* C31: after a successful PrepareBuffer the data pointer of stream i (from 0)
\* is the region's base + i x the region's per-stream maximum, which is a
\* multiple of 16; the byte ranges of distinct streams are pairwise disjoint and
\* every one of them lies inside the allocated region.
C31_StreamsAtFixedStride ==
    (bufferCall.op = "PrepareBuffer" /\ bufferCall.status = "ok") =>
        /\ mBuffers.mMaximumBytesPerBuffer % kAlignment = 0
        /\ \A i \in 1..BoundList.mNumberBuffers :
              /\ AtFixedStride(i)
              /\ StreamRange(i) \subseteq 0..(mBuffers.mBufferDataSize - 1)
              /\ \A j \in 1..BoundList.mNumberBuffers :
                    i # j => StreamRange(i) \cap StreamRange(j) = {}

\* Two streams of two bytes each were prepared in a region of two strides of 16
\* bytes: the second stream starts at byte 16.
C31_Witness ==
    /\ bufferCall.op = "PrepareBuffer"
    /\ bufferCall.status = "ok"
    /\ BoundList.mNumberBuffers = 2
    /\ mBuffers.mMaximumBytesPerBuffer = 16
    /\ mBuffers.mBufferDataSize = 32
    /\ BoundList.mBuffers[1].mDataByteSize = 2
    /\ BoundList.mBuffers[2].mData = MyMemory(16)

\* The latest call is a PrepareBuffer that returned a list, for the format of the
\* latest Allocate.
PreparedForAllocated ==
    /\ bufferCall.op = "PrepareBuffer"
    /\ bufferCall.status = "ok"
    /\ sinceAllocate.allocated
    /\ bufferCall.format = sinceAllocate.format

\* C32, as stated: after Allocate for a format with n streams, every later
\* successful PrepareBuffer for that format returns a list with exactly n
\* buffers, whatever SetBufferList, SetBuffer, PrepareNullBuffer or
\* InvalidateBufferList calls were made in between.
C32_AsStated ==
    PreparedForAllocated =>
        BoundList.mNumberBuffers = NumberChannelStreams(sinceAllocate.format)

\* C32, for what the calls in between leave: the list has the n buffers of the
\* format unless a SetBufferList has succeeded since the Allocate, and then as
\* many as the list of the latest one had, which is n at most.
C32_CountSinceAllocate ==
    PreparedForAllocated =>
        /\ BoundList.mNumberBuffers =
               IF sinceAllocate.set = -1
               THEN NumberChannelStreams(sinceAllocate.format)
               ELSE sinceAllocate.set
        /\ Len(BoundList.mBuffers) = BoundList.mNumberBuffers
        /\ BoundList.mNumberBuffers <= NumberChannelStreams(sinceAllocate.format)

\* A list of two external buffers was bound after an Allocate for two streams,
\* and the PrepareBuffer that followed returned two buffers in the region.
C32_Witness ==
    /\ PreparedForAllocated
    /\ sinceAllocate.set = 2
    /\ BoundList.mNumberBuffers = 2
    /\ mPtrState = "ToMyMemory"
    /\ BoundList.mBuffers[2].mData = MyMemory(mBuffers.mMaximumBytesPerBuffer)

\* C33, as stated: in every reachable state a bound state other than Invalid
\* implies that mBuffers is not null and that the list's buffer count does not
\* exceed the region's maximum buffer count, also after an Allocate that fails and
\* after SetBufferList with an empty list on an AUBufferList never allocated.
C33_AsStated ==
    mPtrState # "Invalid" =>
        /\ mBuffers.allocated
        /\ BoundList.mNumberBuffers <= mBuffers.mMaximumNumberBuffers

\* C33, for the states with a region: the list's buffer count does not exceed
\* the region's maximum buffer count, which is mAllocatedStreams; and a state
\* other than Invalid without a region is entered only by an Allocate that throws
\* or by a call whose behaviour is undefined.
C33_BoundWithinRegion ==
    /\ [](mBuffers.allocated =>
            /\ BoundList.mNumberBuffers <= mBuffers.mMaximumNumberBuffers
            /\ mBuffers.mMaximumNumberBuffers = mAllocatedStreams)
    /\ [][ (mPtrState' # "Invalid" /\ ~mBuffers'.allocated) =>
              \/ mPtrState # "Invalid" /\ ~mBuffers.allocated
              \/ bufferCall'.op = "Allocate" /\ bufferCall'.status # "ok"
              \/ bufferCall'.status = "undefined" ]_vars

\* A host list with as many buffers as the region has streams is bound.
C33_Witness ==
    /\ bufferCall.op = "SetBufferList"
    /\ bufferCall.status = "ok"
    /\ mPtrState = "ToExternalMemory"
    /\ mBuffers.allocated
    /\ mBuffers.mMaximumNumberBuffers = 2
    /\ BoundList.mNumberBuffers = 2

\* The entries PrepareBuffer would have left, with every data pointer null.
PreparedWithoutData ==
    [ i \in 1..Len(bufferCall.prepared) |->
        [bufferCall.prepared[i] EXCEPT !.mData = NullPtr] ]

\* The latest call is a PrepareNullBuffer on an AUBufferList with a region, or
\* one that the stream count test refused.
PrepareNullMade ==
    /\ bufferCall.op = "PrepareNullBuffer"
    /\ bufferCall.status # "undefined"
    /\ bufferCall.prepare # "undefined"

\* PrepareNullBuffer returned a list with the entries PrepareBuffer would have
\* left, but for the null data, and the state is ToExternalMemory.
SameShapeWithoutData ==
    /\ bufferCall.status = "ok"
    /\ mPtrState = "ToExternalMemory"
    /\ BoundList.mBuffers = PreparedWithoutData
    /\ BoundList.mNumberBuffers = Len(PreparedWithoutData)

\* C34, as stated: PrepareNullBuffer accepts and rejects exactly the (format,
\* frame count) requests that PrepareBuffer accepts and rejects, and sets the
\* same channel count and byte size on every entry, with every data pointer
\* null and the bound state ToExternalMemory.
C34_AsStated ==
    PrepareNullMade =>
        /\ (bufferCall.status = "ok") <=> (bufferCall.prepare = "ok")
        /\ bufferCall.prepare = "ok" => SameShapeWithoutData

\* C34, amended: PrepareNullBuffer accepts every request that PrepareBuffer
\* accepts, with the same channel count and byte size on every entry, null
\* data pointers and the state ToExternalMemory; it rejects a request only for
\* its stream count, with the error PrepareBuffer gives for it, and accepts the
\* requests that PrepareBuffer rejects for their frame count or byte size, with
\* nFrames x bytesPerFrame (as a UInt32) as the byte size of every entry.
C34_NullSameShape ==
    PrepareNullMade =>
        /\ bufferCall.prepare = "ok" => SameShapeWithoutData
        /\ bufferCall.status # "ok" =>
              /\ bufferCall.status = "FormatNotSupported"
              /\ bufferCall.prepare \in {"FormatNotSupported", "TooManyFramesToProcess"}
        /\ bufferCall.status = "ok" =>
              /\ mPtrState = "ToExternalMemory"
              /\ \A i \in 1..BoundList.mNumberBuffers :
                    /\ BoundList.mBuffers[i].mData = NullPtr
                    /\ BoundList.mBuffers[i].mNumberChannels =
                           ChannelsPerStream(bufferCall.format)
                    /\ BoundList.mBuffers[i].mDataByteSize =
                           ToSize(bufferCall.nFrames * bufferCall.format.mBytesPerFrame)

\* Two streams of two bytes were prepared without data where PrepareBuffer
\* would have bound them to the region.
C34_Witness ==
    /\ PrepareNullMade
    /\ bufferCall.prepare = "ok"
    /\ bufferCall.status = "ok"
    /\ Len(bufferCall.prepared) = 2
    /\ bufferCall.prepared[2].mData # NullPtr
    /\ BoundList.mBuffers[2] = AudioBuffer(1, 2, NullPtr)

\* A SetBufferList call is made on an AUBufferList.
SetBufferListMade ==
    /\ bufferCalls' # bufferCalls
    /\ bufferCall'.op = "SetBufferList"

\* It failed, leaving the bound state and the AllocatedBuffer as they were.
SetBufferListRefused ==
    /\ bufferCall'.status = "error"
    /\ UNCHANGED << mPtrState, mBuffers >>

\* It copied abl's buffer count and entries and set the state.
SetBufferListBound ==
    /\ bufferCall'.status = "ok"
    /\ mPtrState' = "ToExternalMemory"
    /\ mBuffers'.allocated
    /\ mBuffers'.mAudioBufferList = bufferCall'.abl
    /\ mBuffers'.mAudioBufferList.mNumberBuffers = Len(bufferCall'.abl.mBuffers)

\* C35, as stated: SetBufferList(abl) fails, leaving the bound state and the
\* list unchanged, when abl has more buffers than the allocated stream count;
\* otherwise it copies abl's buffer count and every entry verbatim into the list
\* and sets the bound state to ToExternalMemory.
C35_AsStated ==
    [][ SetBufferListMade =>
          IF bufferCall'.abl.mNumberBuffers > mAllocatedStreams
          THEN SetBufferListRefused
          ELSE SetBufferListBound ]_vars

\* C35, on an AUBufferList that has a region (mBuffers is not null): the same.
C35_SetBufferListBinds ==
    [][ (SetBufferListMade /\ mBuffers.allocated) =>
          IF bufferCall'.abl.mNumberBuffers > mAllocatedStreams
          THEN SetBufferListRefused
          ELSE SetBufferListBound ]_vars

\* A list of one buffer was bound by an AUBufferList allocated for two streams.
C35_Witness ==
    /\ bufferCall.op = "SetBufferList"
    /\ bufferCall.status = "ok"
    /\ bufferCall.abl.mNumberBuffers = 1
    /\ mAllocatedStreams = 2
    /\ mPtrState = "ToExternalMemory"
    /\ BoundList.mBuffers = << AudioBuffer(1, 2, ExternalMemory(1)) >>

\* The region mBuffers points to, 0 when it is null.
OwnedRegion == IF mBuffers.allocated THEN mBuffers.id ELSE 0

\* C36: across any sequence of Allocate and Deallocate calls on an AUBufferList
\* followed by its destruction, every region obtained from the allocator is
\* released exactly once: at any time the one region owned, if any, has not been
\* released and every other region obtained has been released once, and once the
\* AUBufferList is destroyed none is owned.
C36_ReleasedExactlyOnce ==
    /\ \A id \in 1..Len(released) :
          released[id] = IF id = OwnedRegion THEN 0 ELSE 1
    /\ OwnedRegion \in 0..Len(released)
    /\ bufferCall.status = "destroyed" => OwnedRegion = 0

\* An AUBufferList on which Allocate returned twice was destroyed after
\* MaxBufferCalls calls: both regions were released once.
C36_Witness ==
    /\ bufferCall.status = "destroyed"
    /\ released = << 1, 1 >>
    /\ bufferCalls = MaxBufferCalls

\* ------------------------------------------- claims about ScheduleParameter

\* The slice was processed with no immediate event for parameter p applied to it.
NoneAppliedFor(slice, p) ==
    AppliedFor(mParamEventList, p, slice.start, ToUInt(slice.start + slice.frames)) = << >>

\* A slice to which no event for a parameter was applied was processed with the
\* value the latest ScheduleParameter wrote for the parameter.
SlicesSeeWritten ==
    spc \in {"loop", "returned"} =>
        \A k \in 1..Len(slices) : \A p \in ParamIDs :
            (NoneAppliedFor(slices[k], p) /\ lastScheduled[p] # << >>)
                => slices[k].params[p] = lastScheduled[p][1]

RampsOverlapping(slice) ==
    SelectSeq(mParamEventList,
              LAMBDA e : /\ e.eventType = "Ramped"
                         /\ EventFallsInSlice(e, slice.start,
                                              ToUInt(slice.start + slice.frames)))

\* The value a parameter has in a slice if only the immediate events count: that
\* of the last immediate event for it, in list order, that falls in the slice, or
\* the one the store held before the call.
ValueByImmediates(slice, p) ==
    LET applied == AppliedFor(mParamEventList, p, slice.start,
                              ToUInt(slice.start + slice.frames))
    IN  IF applied = << >> THEN InitialValue ELSE applied[Len(applied)].value

\* C38: a pass of the loop whose slice is overlapped by ramped events only leaves
\* the parameter store as it was, and the result of the call is what
\* ProcessScheduledSlice returned; in every pass the store handed to the callback
\* is the one the immediate events alone determine, whatever ramped events the
\* list holds.
C38_RampedLeavesStore ==
    /\ [][(/\ Len(slices') = Len(slices) + 1
           /\ \A p \in ParamIDs : NoneAppliedFor(slices'[Len(slices')], p))
          => /\ mParameters' = mParameters
             /\ result' = slices'[Len(slices')].result]_vars
    /\ [](spc \in {"loop", "returned"} =>
            \A k \in 1..Len(slices) : \A p \in ParamIDs :
                slices[k].params[p] = ValueByImmediates(slices[k], p))

\* A slice overlapped by a ramp for parameter A was handed to the callback, which
\* returned noErr, after an earlier slice had set A by an immediate event: A still
\* has that event's value.
C38_Witness ==
    /\ spc \in {"loop", "returned"}
    /\ Len(slices) = 2
    /\ RampsOverlapping(slices[2]) # << >>
    /\ RampsOverlapping(slices[1]) = << >>
    /\ slices[2].result = NoErr
    /\ slices[1].params["A"] # InitialValue
    /\ slices[2].params["A"] = slices[1].params["A"]
    /\ mParameters = slices[2].params

\* ------------------------------------------------ claims about termination

\* The boundaries an event list asks for strictly inside a block of N frames.
BoundariesInside(list, N) == { b \in Boundaries(list) : 0 < b /\ b < N }

\* C39: for every frame count and every event list, ProcessForScheduledParams
\* returns once each call of the callback has returned, and it never calls the
\* callback more often than the number of distinct event starts and ramp ends
\* strictly inside (0, N) plus one; with no frames the callback is never called.
C39_TerminatesWithinBound ==
    /\ <>(spc = "returned")
    /\ [](Len(slices) <= Cardinality(BoundariesInside(mParamEventList, inFramesToProcess)) + 1)
    /\ [](inFramesToProcess = 0 => slices = << >>)

\* A call over MaxFrames frames with two boundaries inside the block has returned
\* after three calls of the callback.
C39_Witness ==
    /\ spc = "returned"
    /\ inFramesToProcess = MaxFrames
    /\ Cardinality(BoundariesInside(mParamEventList, inFramesToProcess)) = 2
    /\ Len(slices) = 3
    /\ result = NoErr

\* ------------------------------------- claims about DoInitialize and DoCleanup

\* The fields of the unit that DoInitialize, DoCleanup and SetMaxFramesPerSlice
\* assign.
UnitState ==
    << mInitialized, mHasBegunInitializing, mBuffersAllocated, mIOBuffer,
       mMaxFramesPerSlice >>

\* No I/O element's buffer list owns a region.
NothingAllocated == \A e \in DOMAIN mIOBuffer : ~mIOBuffer[e].allocated

\* An initialized unit has begun initializing and its buffers are marked allocated.
InitializedImpliesBegun == mInitialized => (mHasBegunInitializing /\ mBuffersAllocated)

\* A DoInitialize call on an initialized unit changes nothing of the unit.
InitializeTwiceKeeps ==
    (initCall' # initCall /\ initCall'.op = "DoInitialize" /\ mInitialized)
        => UnitState' = UnitState

\* A DoCleanup call was the latest of the three calls: the unit is uninitialized
\* and nothing is marked as begun or allocated.
CleanedUp ==
    initCall.op = "DoCleanup" =>
        (~mInitialized /\ ~mHasBegunInitializing /\ ~mBuffersAllocated)

\* A DoRender call made when DoCleanup was the latest of the three calls returns
\* kAudioUnitErr_Uninitialized at once.
RenderAfterCleanup ==
    (initCall.op = "DoCleanup" /\ renderCall' # renderCall)
        => /\ renderCall'.status = "returned"
           /\ renderCall'.error = "kAudioUnitErr_Uninitialized"
           /\ rpc' = "idle"

\* C40, as stated: an initialized unit has begun initializing and its buffers are
\* marked allocated; DoInitialize on an initialized unit changes nothing; a
\* DoInitialize whose Initialize() fails leaves the unit uninitialized with no
\* buffer allocated; after DoCleanup the unit is uninitialized, every I/O buffer
\* is deallocated, and DoRender returns kAudioUnitErr_Uninitialized.
C40_AsStated ==
    /\ []InitializedImpliesBegun
    /\ [][InitializeTwiceKeeps]_vars
    /\ [][(initCall' # initCall /\ initCall'.op = "DoInitialize"
             /\ initCall'.status = "kAudioUnitErr_FailedInitialization")
          => (~mInitialized' /\ ~mBuffersAllocated' /\ NothingAllocated')]_vars
    /\ [](CleanedUp /\ (initCall.op = "DoCleanup" => NothingAllocated))
    /\ [][RenderAfterCleanup]_vars

\* C40, with the buffers that a DoInitialize left by an exception of
\* ReallocateBuffers leaves behind: the same for the flags; a DoInitialize whose
\* Initialize() fails changes nothing of an uninitialized unit, whose buffers are
\* not marked allocated; and whenever the buffers are not marked allocated no
\* I/O buffer is allocated, unless a DoInitialize was left by an exception and no
\* DoInitialize has initialized the unit since.
C40_InitializedAndCleanedUp ==
    /\ []InitializedImpliesBegun
    /\ [](~mInitialized => ~mBuffersAllocated)
    /\ [][InitializeTwiceKeeps]_vars
    /\ [][(initCall' # initCall /\ initCall'.op = "DoInitialize"
             /\ initCall'.status = "kAudioUnitErr_FailedInitialization")
          => (~mInitialized' /\ UnitState' = UnitState)]_vars
    /\ []CleanedUp
    /\ []((~mBuffersAllocated /\ ~initThrew) => NothingAllocated)
    /\ [][RenderAfterCleanup]_vars

\* On a unit whose mMaxFramesPerSlice a SetMaxFramesPerSlice has changed and on
\* which no DoInitialize is left unfinished by an exception, DoCleanup was the
\* latest of the three calls and a DoRender call has returned
\* kAudioUnitErr_Uninitialized: the unit is uninitialized and no buffer is allocated.
C40_Witness ==
    /\ initCall.op = "DoCleanup"
    /\ ~initThrew
    /\ mMaxFramesPerSlice # MaxFrames
    /\ NothingAllocated
    /\ ~mInitialized
    /\ renderCall.status = "returned"
    /\ renderCall.error = "kAudioUnitErr_Uninitialized"

====
